---- MODULE Spec2Model ----
(***************************************************************************)
(* Option++ command-line parser: the token classification and consumption  *)
(* loop of parser::parse, with parse_argument and parse_short_option_group.*)
(* A std::string is a sequence of one-character strings; positions inside  *)
(* the operators that model std::string members are 0-based as in C++.     *)
(***************************************************************************)
EXTENDS Integers, Sequences, FiniteSets, TLC

(* ---------------------------------------------------------------------- *)
(* Bounds                                                                  *)
(* ---------------------------------------------------------------------- *)

\* longest command line (number of tokens) that is parsed
MaxArgs == 3

\* longest command line with arguments for bound numeric variables
MaxBoundArgs == 2

\* longest command line of a parser that parses several, and their number
MaxCallArgs == 2
MaxCalls == 2

\* longest text (number of characters) that is split
MaxLen == 5

(* ---------------------------------------------------------------------- *)
(* The data members of parser                                              *)
(* ---------------------------------------------------------------------- *)

VARIABLES
  m_groups,               \* the option groups in order of creation, each
                          \* with its name and its options in order
  m_delims,               \* delimiters that separate the tokens of a line
  m_short_option_prefix,  \* string that starts a short option group
  m_long_option_prefix,   \* string that starts a long option
  m_end_of_options,       \* string that ends the options
  m_equals,               \* string between an option and its argument
  registered              \* history: the options as <<group, index>> in the
                          \* order in which they were added

parser_vars ==
  <<m_groups, m_delims, m_short_option_prefix, m_long_option_prefix,
    m_end_of_options, m_equals, registered>>

\* the strings of a parser after construction (parser.hpp member
\* initialisers)
default_strings ==
  /\ m_delims = <<" ", "\t", "\n", "\r">>
  /\ m_short_option_prefix = <<"-">>
  /\ m_long_option_prefix = <<"-", "-">>
  /\ m_end_of_options = <<"-", "-">>
  /\ m_equals = <<"=">>

\* '\0', the short name of an option or entry that has none
NUL == "NUL"
\* nullptr, for option* and for parser_result::item::opt_info
nullptr == <<>>
\* std::string::npos
npos == -1

(* ---------------------------------------------------------------------- *)
(* Option table: the parser `example` of the test suite                    *)
(* ---------------------------------------------------------------------- *)

\* nullptr for bool* and void*: the pointer to no variable
no_variable == "nullptr"

\* m_is_option_set and m_bound_variable hold the name of the variable they
\* point to, a field of the record data, or no_variable
option(long_name, short_name, arg_name, arg_required) ==
  [m_long_name |-> long_name, m_short_name |-> short_name,
   m_arg_name |-> arg_name, m_arg_required |-> arg_required,
   m_arg_type |-> "string_arg", m_is_option_set |-> no_variable,
   m_bound_variable |-> no_variable]

\* the option after bind_bool(&var); that *var becomes false is part of
\* bound_variables below
bind_bool(opt, var) == [opt EXCEPT !.m_is_option_set = var]

bind_string(opt, var) ==
  [opt EXCEPT !.m_arg_name = IF @ = <<>> THEN <<"S","T","R","I","N","G">> ELSE @,
              !.m_arg_type = "string_arg",
              !.m_bound_variable = var]

bind_int(opt, var) ==
  [opt EXCEPT !.m_arg_name = IF @ = <<>> THEN <<"I","N","T","E","G","E","R">> ELSE @,
              !.m_arg_type = "int_arg",
              !.m_bound_variable = var]

bind_uint(opt, var) ==
  [opt EXCEPT !.m_arg_name = IF @ = <<>> THEN <<"I","N","T","E","G","E","R">> ELSE @,
              !.m_arg_type = "uint_arg",
              !.m_bound_variable = var]

bind_double(opt, var) ==
  [opt EXCEPT !.m_arg_name = IF @ = <<>> THEN <<"N","U","M","B","E","R">> ELSE @,
              !.m_arg_type = "double_arg",
              !.m_bound_variable = var]

\* a group with its options
option_group(name, options) == [m_name |-> name, m_options |-> options]

\* the groups of the parser `example`: the unnamed group and "Output
\* options"; the last two options of the unnamed group are those the test
\* adds for its type errors
example ==
  << option_group(<<>>,
     << bind_bool(option(<<"h","e","l","p">>, "?", <<>>, FALSE), "help"),
        bind_bool(option(<<"v","e","r","s","i","o","n">>, NUL, <<>>, FALSE), "version"),
        bind_bool(option(<<"v","e","r","b","o","s","e">>, "v", <<>>, FALSE), "verbose"),
        option(<<"a","l","l">>, "a", <<>>, FALSE),
        bind_bool(option(<<"f","o","r","c","e">>, "f", <<>>, FALSE), "force"),
        bind_double(option(<<"t","e","m","p","e","r","a","t","u","r","e">>, "t",
                           <<>>, FALSE), "temperature"),
        bind_int(option(<<"n","e","t","-","w","o","r","t","h">>, NUL, <<>>, FALSE),
                 "net_worth") >>),
     option_group(<<"O","u","t","p","u","t"," ","o","p","t","i","o","n","s">>,
     << bind_bool(bind_string(option(<<"o","u","t","p","u","t">>, "o",
                                     <<"F","I","L","E">>, TRUE), "file"),
                  "has_file"),
        bind_bool(option(<<>>, "n", <<>>, FALSE), "line_nos"),
        bind_uint(option(<<"i","n","d","e","n","t">>, NUL, <<"W","I","D","T","H">>,
                         FALSE), "indent"),
        bind_string(option(<<"c","o","l","o","r">>, "c", <<"C","O","L","O","R">>,
                           FALSE), "color") >>) >>

\* the order in which the test adds the options of `example`
example_registered ==
  << <<1, 1>>, <<1, 2>>, <<1, 3>>, <<2, 1>>, <<2, 2>>, <<1, 4>>, <<2, 3>>,
     <<1, 5>>, <<2, 4>>, <<1, 6>>, <<1, 7>> >>

\* the parser `example` with the strings it is constructed with
example_parser ==
  /\ default_strings
  /\ m_groups = example
  /\ registered = example_registered

\* *opt for a non-null option pointer <<group, index>>
Deref(opt) == m_groups[opt[1]].m_options[opt[2]]

(* ---------------------------------------------------------------------- *)
(* std::string helpers                                                     *)
(* ---------------------------------------------------------------------- *)

\* std::string::substr(pos)
substr(str, pos) == SubSeq(str, pos + 1, Len(str))

\* std::string::substr(pos, count)
substr_n(str, pos, count) ==
  SubSeq(str, pos + 1, IF pos + count > Len(str) THEN Len(str) ELSE pos + count)

is_substr_at_pos(str, sub, pos) ==
  IF pos + Len(sub) > Len(str)
    THEN FALSE
    ELSE \A i \in 0..(Len(sub) - 1) : str[pos + i + 1] = sub[i + 1]

\* std::string::find(sub): the first position where sub occurs, or npos
find(str, sub) ==
  LET hits == {p \in 0..Len(str) : is_substr_at_pos(str, sub, p)}
  IN IF hits = {} THEN npos
     ELSE CHOOSE p \in hits : \A q \in hits : p <= q

(* ---------------------------------------------------------------------- *)
(* Option lookup                                                           *)
(* ---------------------------------------------------------------------- *)

\* every option of every group, as <<group, index>>
all_options ==
  UNION {{<<g, i>> : i \in DOMAIN m_groups[g].m_options} : g \in DOMAIN m_groups}

\* first_found that goes on to the last match
last_found(hits) ==
  IF hits = {} THEN nullptr
  ELSE CHOOSE p \in hits :
         \A q \in hits : q[1] < p[1] \/ (q[1] = p[1] /\ q[2] <= p[2])

\* the first of the positions hits in the order of the table (groups in
\* order, then the options of a group in order), or nullptr if there is none
first_found(hits) ==
  IF hits = {} THEN nullptr
  ELSE CHOOSE p \in hits :
         \A q \in hits : p[1] < q[1] \/ (p[1] = q[1] /\ p[2] <= q[2])

find_option_long(long_name) ==
  first_found({p \in all_options : Deref(p).m_long_name = long_name})

find_option_short(short_name) ==
  first_found({p \in all_options : Deref(p).m_short_name = short_name})

(* ---------------------------------------------------------------------- *)
(* Token classification                                                    *)
(* ---------------------------------------------------------------------- *)

is_end_indicator(argument) == argument = m_end_of_options

\* is_long_option that also accepts the prefix alone
is_long_option_or_prefix(argument) ==
  /\ Len(argument) >= Len(m_long_option_prefix)
  /\ is_substr_at_pos(argument, m_long_option_prefix, 0)

is_long_option(argument) ==
  /\ Len(argument) > Len(m_long_option_prefix)
  /\ is_substr_at_pos(argument, m_long_option_prefix, 0)

is_short_option_group(argument) ==
  /\ Len(argument) > Len(m_short_option_prefix)
  /\ is_substr_at_pos(argument, m_short_option_prefix, 0)

(* ---------------------------------------------------------------------- *)
(* Entries and errors                                                      *)
(* ---------------------------------------------------------------------- *)

\* parser_result::item{}
item ==
  [original_text |-> <<>>, original_without_argument |-> <<>>,
   is_option |-> FALSE, long_name |-> <<>>, short_name |-> NUL,
   argument |-> <<>>, opt_info |-> nullptr]

\* no exception in flight
NoError == [kind |-> "none", option |-> <<>>]

\* parse_error; kind stands for the message: InvalidOption is "invalid
\* option: 'X'", MissingArgument is "option 'X' requires an argument",
\* UnexpectedArgument is "option 'X' does not accept arguments"; the kinds
\* of write_option_argument are listed there
parse_error(kind, opt_name) == [kind |-> kind, option |-> opt_name]

\* value of parse_argument and parse_short_option_group: the two reference
\* parameters and the bound variables as they are when the call returns or
\* throws, and the exception
Outcome(result, type, error, data) ==
  [result |-> result, type |-> type, error |-> error, data |-> data]

(* ---------------------------------------------------------------------- *)
(* Numeric conversion: std::stoll, std::stoi, std::stod                    *)
(* ---------------------------------------------------------------------- *)

\* std::isspace in the "C" locale (the vertical tab has no TLA+ spelling)
isspace(ch) == ch \in {" ", "\t", "\n", "\f", "\r"}

isdigit(ch) == ch \in {"0", "1", "2", "3", "4", "5", "6", "7", "8", "9"}

digit_value(ch) ==
  CASE ch = "0" -> 0 [] ch = "1" -> 1 [] ch = "2" -> 2 [] ch = "3" -> 3
    [] ch = "4" -> 4 [] ch = "5" -> 5 [] ch = "6" -> 6 [] ch = "7" -> 7
    [] ch = "8" -> 8 [] ch = "9" -> 9

RECURSIVE skip_space(_, _)
\* the position of the first character of str at or after pos that is not a
\* space, Len(str) if there is none
skip_space(str, pos) ==
  IF pos < Len(str) /\ isspace(str[pos + 1]) THEN skip_space(str, pos + 1) ELSE pos

RECURSIVE skip_digits(_, _)
\* the same for decimal digits
skip_digits(str, pos) ==
  IF pos < Len(str) /\ isdigit(str[pos + 1]) THEN skip_digits(str, pos + 1) ELSE pos

RECURSIVE strip_zeros(_)
\* a run of digits without its leading zeros, one digit at least
strip_zeros(digits) ==
  IF Len(digits) > 1 /\ digits[1] = "0" THEN strip_zeros(Tail(digits)) ELSE digits

\* an integer value of any width: its sign and the decimal digits of its
\* magnitude.  The widths of the program (32 and 64 bits) are beyond the
\* integers of the model checker, so values are kept and compared digit
\* by digit.
integer(neg, digits) ==
  [neg |-> neg /\ strip_zeros(digits) # <<"0">>, mag |-> strip_zeros(digits)]

\* a < b for magnitudes
mag_less(a, b) ==
  \/ Len(a) < Len(b)
  \/ /\ Len(a) = Len(b)
     /\ \E i \in 1..Len(a) :
          /\ digit_value(a[i]) < digit_value(b[i])
          /\ \A j \in 1..(i - 1) : a[j] = b[j]

\* x < y for integer values
less(x, y) ==
  IF x.neg /\ ~y.neg THEN TRUE
  ELSE IF ~x.neg /\ y.neg THEN FALSE
  ELSE IF x.neg THEN mag_less(y.mag, x.mag)
  ELSE mag_less(x.mag, y.mag)

zero == integer(FALSE, <<"0">>)
\* std::numeric_limits<long long>: 64 bits
LLONG_MAX == integer(FALSE, <<"9", "2", "2", "3", "3", "7", "2", "0", "3", "6", "8", "5", "4", "7", "7", "5", "8", "0", "7">>)
LLONG_MIN == integer(TRUE, <<"9", "2", "2", "3", "3", "7", "2", "0", "3", "6", "8", "5", "4", "7", "7", "5", "8", "0", "8">>)
\* std::numeric_limits<int>: 32 bits
INT_MAX == integer(FALSE, <<"2", "1", "4", "7", "4", "8", "3", "6", "4", "7">>)
INT_MIN == integer(TRUE, <<"2", "1", "4", "7", "4", "8", "3", "6", "4", "8">>)
\* UINT_MAX of an unsigned that is no wider than int
UINT_MAX_of_int == integer(FALSE, <<"2", "1", "4", "7", "4", "8", "3", "6", "4", "7">>)

\* std::numeric_limits<unsigned>::max(): 32 bits
UINT_MAX == integer(FALSE, <<"4", "2", "9", "4", "9", "6", "7", "2", "9", "5">>)

\* what a conversion function hands back: "ok" with the value and the
\* number of characters processed, or the exception it throws
conversion(status, value, pos) == [status |-> status, value |-> value, pos |-> pos]

\* the position behind the sign at pos, pos itself if there is no sign
skip_sign(str, pos) ==
  IF pos < Len(str) /\ str[pos + 1] \in {"+", "-"} THEN pos + 1 ELSE pos

\* scanned that reports the whole text as processed
scanned_to_end(str, p0, p1, p2) ==
  [converted |-> p2 > p1,
   value |-> IF p2 > p1 THEN integer(p1 > p0 /\ str[p0 + 1] = "-",
                                     SubSeq(str, p1 + 1, p2))
                        ELSE zero,
   pos |-> Len(str)]

\* what strtoll and strtol have found when the text behind the spaces
\* starts at p0, the digits at p1, and what follows them at p2
scanned(str, p0, p1, p2) ==
  [converted |-> p2 > p1,
   value |-> IF p2 > p1 THEN integer(p1 > p0 /\ str[p0 + 1] = "-",
                                     SubSeq(str, p1 + 1, p2))
                        ELSE zero,
   pos |-> p2]

\* strtoll and strtol in base 10 behind the spaces: a sign, digits
scan_sign_digits(str, p0) ==
  scanned(str, p0, skip_sign(str, p0), skip_digits(str, skip_sign(str, p0)))

\* strtoll and strtol in base 10: spaces, a sign, digits
scan_integer(str) == scan_sign_digits(str, skip_space(str, 0))

\* what std::stoll and std::stoi make of the scan n for a type of the
\* range min..max
checked(n, min, max) ==
  IF ~n.converted THEN conversion("invalid_argument", zero, 0)
  ELSE IF less(n.value, min) \/ less(max, n.value)
    THEN conversion("out_of_range", zero, 0)
  ELSE conversion("ok", n.value, n.pos)

\* std::stoll(str, &pos)
stoll(str) == checked(scan_integer(str), LLONG_MIN, LLONG_MAX)

\* std::stoi(str, &pos)
stoi(str) == checked(scan_integer(str), INT_MIN, INT_MAX)

\* the position behind the fraction that starts with a point at pos, pos
\* itself if there is no point
skip_fraction(str, pos) ==
  IF pos < Len(str) /\ str[pos + 1] = "." THEN skip_digits(str, pos + 1) ELSE pos

\* the exponent at pos is complete if digits stand between p4 and p5
exponent_end(pos, p4, p5) == IF p5 > p4 THEN p5 ELSE pos

\* the position behind the exponent at pos, pos itself if there is no
\* letter e with digits behind it
skip_exponent(str, pos) ==
  IF pos < Len(str) /\ str[pos + 1] \in {"e", "E"}
    THEN exponent_end(pos, skip_sign(str, pos + 1),
                      skip_digits(str, skip_sign(str, pos + 1)))
    ELSE pos

\* what strtod has found when the text behind the spaces starts at p0, the
\* digits at p1, the point or what follows the digits at p2, and what
\* follows the fraction at p3
scanned_decimal(str, p0, p1, p2, p3) ==
  IF (p2 - p1) + (IF p3 > p2 THEN p3 - (p2 + 1) ELSE 0) = 0
    THEN conversion("invalid_argument", <<>>, 0)
    ELSE conversion("ok", SubSeq(str, p0 + 1, skip_exponent(str, p3)),
                    skip_exponent(str, p3))

\* strtod behind the sign: digits with at most one point
scan_mantissa(str, p0, p1) ==
  scanned_decimal(str, p0, p1, skip_digits(str, p1),
                  skip_fraction(str, skip_digits(str, p1)))

\* std::stod(str, &pos) for decimal texts within the range of double:
\* spaces, a sign, digits with at most one point and one digit at least,
\* and an exponent if digits follow its letter.  The value is the decimal
\* that was read; its rounding to a double is not modelled, nor are
\* hexadecimal texts, infinities and NaNs.
stod(str) ==
  scan_mantissa(str, skip_space(str, 0), skip_sign(str, skip_space(str, 0)))

(* ---------------------------------------------------------------------- *)
(* Bound variables                                                         *)
(* ---------------------------------------------------------------------- *)

\* the variables behind the pointers of the option table when the options
\* have been registered: the members of the test's settings with their
\* initialisers, the flags false by bind_bool.  The two of settings_ex have
\* no initialiser and are never read: they start as a decimal without text
\* and an integer without digits, which no conversion yields.
bound_variables ==
  [help |-> FALSE, version |-> FALSE, verbose |-> FALSE, file |-> <<>>,
   has_file |-> FALSE, indent |-> integer(FALSE, <<"2">>), force |-> FALSE,
   line_nos |-> FALSE, color |-> <<>>,
   temperature |-> <<>>, net_worth |-> [neg |-> FALSE, mag |-> <<>>]]

\* write_bool that leaves the flag alone
write_bool_ignored(opt, value, data) == data

\* option::write_bool: data after the call
write_bool(opt, value, data) ==
  IF Deref(opt).m_is_option_set # no_variable
    THEN [data EXCEPT ![Deref(opt).m_is_option_set] = value]
    ELSE data

\* option::write_string, write_int, write_uint and write_double when type
\* and variable fit, as they do where write_option_argument calls them
write_value(opt, value, data) ==
  [data EXCEPT ![Deref(opt).m_bound_variable] = value]

\* value of write_option_argument: the exception, and the variables after it
Written(error, data) == [error |-> error, data |-> data]

\* write_uint_argument that writes what std::stoll returned before it
\* checks it
write_uint_argument_writes_first(opt, arg, opt_name, c, data) ==
  IF c.status = "invalid_argument"
    THEN Written(parse_error("MustBeInteger", opt_name), data)
  ELSE IF c.status = "out_of_range"
    THEN Written(parse_error("OutOfRange", opt_name), data)
  ELSE IF c.pos # Len(arg)
    THEN Written(parse_error("MustBeInteger", opt_name), write_value(opt, c.value, data))
  ELSE IF less(c.value, zero)
    THEN Written(parse_error("MustNotBeNegative", opt_name),
                 write_value(opt, c.value, data))
  ELSE IF less(UINT_MAX, c.value)
    THEN Written(parse_error("OutOfRange", opt_name), write_value(opt, c.value, data))
  ELSE Written(NoError, write_value(opt, c.value, data))

\* case option::uint_arg of write_option_argument, c being what std::stoll
\* made of the argument
write_uint_argument(opt, arg, opt_name, c, data) ==
  IF c.status = "invalid_argument"
    THEN Written(parse_error("MustBeInteger", opt_name), data)
  ELSE IF c.status = "out_of_range"
    THEN Written(parse_error("OutOfRange", opt_name), data)
  ELSE IF c.pos # Len(arg)
    THEN Written(parse_error("MustBeInteger", opt_name), data)
  ELSE IF less(c.value, zero)
    THEN Written(parse_error("MustNotBeNegative", opt_name), data)
  ELSE IF less(UINT_MAX, c.value)
    THEN Written(parse_error("OutOfRange", opt_name), data)
  ELSE Written(NoError, write_value(opt, c.value, data))

\* case option::int_arg, c being what std::stoi made of the argument
write_int_argument(opt, arg, opt_name, c, data) ==
  IF c.status = "invalid_argument"
    THEN Written(parse_error("MustBeInteger", opt_name), data)
  ELSE IF c.status = "out_of_range"
    THEN Written(parse_error("OutOfRange", opt_name), data)
  ELSE IF c.pos # Len(arg)
    THEN Written(parse_error("MustBeInteger", opt_name), data)
  ELSE Written(NoError, write_value(opt, c.value, data))

\* case option::double_arg, c being what std::stod made of the argument
write_double_argument(opt, arg, opt_name, c, data) ==
  IF c.status = "invalid_argument" \/ c.pos # Len(arg)
    THEN Written(parse_error("MustBeNumber", opt_name), data)
    ELSE Written(NoError, write_value(opt, c.value, data))

\* parser::write_option_argument(opt, item).  The kinds of its parse_error
\* stand for the messages: MustBeInteger is "argument for option 'X' must
\* be an integer", MustBeNumber "... must be a number", MustNotBeNegative
\* "... must not be negative", OutOfRange "... is out of range".
write_option_argument(opt, arg_info, data) ==
  IF Deref(opt).m_bound_variable = no_variable THEN Written(NoError, data)
  ELSE IF Deref(opt).m_arg_type = "uint_arg"
    THEN write_uint_argument(opt, arg_info.argument,
                             arg_info.original_without_argument,
                             stoll(arg_info.argument), data)
  ELSE IF Deref(opt).m_arg_type = "int_arg"
    THEN write_int_argument(opt, arg_info.argument,
                            arg_info.original_without_argument,
                            stoi(arg_info.argument), data)
  ELSE IF Deref(opt).m_arg_type = "double_arg"
    THEN write_double_argument(opt, arg_info.argument,
                               arg_info.original_without_argument,
                               stod(arg_info.argument), data)
  ELSE Written(NoError, write_value(opt, arg_info.argument, data))

(* ---------------------------------------------------------------------- *)
(* parse_short_option_group                                                *)
(* ---------------------------------------------------------------------- *)

\* attached_argument that ends at the assignment symbol
attached_argument_up_to_symbol(short_names, pos, argument, has_arg) ==
  substr(short_names, pos + 1)

\* attached_argument that leaves the assignment symbol out
attached_argument_symbol_stripped(short_names, pos, argument, has_arg) ==
  substr(short_names, pos + 1) \o (IF has_arg THEN argument ELSE <<>>)

\* attached_argument that starts at the option character
attached_argument_from_name(short_names, pos, argument, has_arg) ==
  substr(short_names, pos) \o (IF has_arg THEN m_equals \o argument ELSE <<>>)

\* the argument of an option that is not the last character of its group:
\* the rest of the group, and the assignment symbol and what follows it
attached_argument(short_names, pos, argument, has_arg) ==
  substr(short_names, pos + 1) \o (IF has_arg THEN m_equals \o argument ELSE <<>>)

\* argument_not_accepted that does not wait for the last option
argument_not_accepted_anywhere(short_names, pos, has_arg) == has_arg

\* an option that takes no argument is the last of a group that has one
argument_not_accepted(short_names, pos, has_arg) ==
  pos + 1 = Len(short_names) /\ has_arg

\* invalid_short_option that names the whole group
invalid_short_option_whole_group(short_names, pos) ==
  parse_error("InvalidOption", m_short_option_prefix \o short_names)

\* the exception for a character of the group that names no option
invalid_short_option(short_names, pos) ==
  parse_error("InvalidOption", Append(m_short_option_prefix, short_names[pos + 1]))

RECURSIVE short_option_loop(_, _, _, _, _, _, _)
\* the for loop of parse_short_option_group from position pos on
short_option_loop(short_names, argument, has_arg, result, type, data, pos) ==
  IF pos = Len(short_names)
    THEN Outcome(result, type, NoError, data)
    ELSE
      LET ch == short_names[pos + 1]
          opt == find_option_short(ch)
          opt_name == Append(m_short_option_prefix, ch)
      IN
      IF opt = nullptr
        THEN Outcome(result, type, invalid_short_option(short_names, pos), data)
        ELSE
          LET arg_info == [item EXCEPT !.original_text = opt_name,
                                       !.original_without_argument = opt_name,
                                       !.is_option = TRUE,
                                       !.long_name = Deref(opt).m_long_name,
                                       !.short_name = ch,
                                       !.opt_info = opt]
              set == write_bool(opt, TRUE, data)
          IN
          IF Deref(opt).m_arg_name # <<>>
            THEN
              IF pos + 1 < Len(short_names)
                THEN \* not the last option: the rest of the string is the argument
                  LET arg == attached_argument(short_names, pos, argument, has_arg)
                      with_arg == [arg_info EXCEPT !.argument = arg,
                                                   !.original_text = opt_name \o arg]
                      w == write_option_argument(opt, with_arg, set)
                  IN IF w.error # NoError
                       THEN Outcome(result, type, w.error, w.data)
                       ELSE Outcome(Append(result, with_arg), "no_arg", NoError, w.data)
                ELSE \* the last option, and it takes an argument
                  IF has_arg
                    THEN
                      LET with_arg ==
                            [arg_info EXCEPT
                               !.original_text = opt_name \o m_equals \o argument,
                               !.argument = argument]
                          w == write_option_argument(opt, with_arg, set)
                      IN IF w.error # NoError
                           THEN Outcome(result, type, w.error, w.data)
                           ELSE Outcome(Append(result, with_arg), "no_arg", NoError,
                                        w.data)
                    ELSE Outcome(Append(result, arg_info),
                                 IF Deref(opt).m_arg_required
                                   THEN "arg_required" ELSE "arg_optional",
                                 NoError, set)
            ELSE
              IF argument_not_accepted(short_names, pos, has_arg)
                THEN Outcome(result, type, parse_error("UnexpectedArgument", opt_name),
                             set)
                ELSE short_option_loop(short_names, argument, has_arg,
                                       Append(result, arg_info), "no_arg", set,
                                       pos + 1)

\* parse_short_option_group that rejects the argument of a group that ends
\* in an option without argument before it looks up the others
parse_short_option_group_argument_first(short_names, argument, has_arg, result, type, data) ==
  IF /\ has_arg /\ short_names # <<>>
     /\ find_option_short(short_names[Len(short_names)]) # nullptr
     /\ Deref(find_option_short(short_names[Len(short_names)])).m_arg_name = <<>>
    THEN Outcome(result, type,
                 parse_error("UnexpectedArgument",
                             Append(m_short_option_prefix,
                                    short_names[Len(short_names)])),
                 data)
    ELSE short_option_loop(short_names, argument, has_arg, result, type, data, 0)

\* parse_short_option_group that looks up every character of the group
\* before it handles the first
parse_short_option_group_checks_all(short_names, argument, has_arg, result, type, data) ==
  IF \E k \in 1..Len(short_names) : find_option_short(short_names[k]) = nullptr
    THEN Outcome(result, type,
                 invalid_short_option(
                   short_names,
                   (CHOOSE k \in 1..Len(short_names) :
                      /\ find_option_short(short_names[k]) = nullptr
                      /\ \A j \in 1..(k - 1) :
                           find_option_short(short_names[j]) # nullptr) - 1),
                 data)
    ELSE short_option_loop(short_names, argument, has_arg, result, type, data, 0)

\* parse_short_option_group that stops after the first option of the group
parse_short_option_group_first_only(short_names, argument, has_arg, result, type, data) ==
  short_option_loop(SubSeq(short_names, 1, 1), argument, has_arg, result, type,
                    data, 0)

parse_short_option_group(short_names, argument, has_arg, result, type, data) ==
  short_option_loop(short_names, argument, has_arg, result, type, data, 0)

(* ---------------------------------------------------------------------- *)
(* parse_argument                                                          *)
(* ---------------------------------------------------------------------- *)

\* bad_assignment that rejects every assignment to what is no option
bad_assignment_to_non_option(option_specifier, assignment_found) ==
  /\ assignment_found
  /\ \/ option_specifier = m_short_option_prefix
     \/ option_specifier = m_long_option_prefix
     \/ ~is_long_option(option_specifier) /\ ~is_short_option_group(option_specifier)

\* bad_assignment that knows the short prefix only
bad_assignment_short_only(option_specifier, assignment_found) ==
  assignment_found /\ option_specifier = m_short_option_prefix

\* bad syntax like -= and --=: nothing but a prefix before the assignment
bad_assignment(option_specifier, assignment_found) ==
  /\ assignment_found
  /\ \/ option_specifier = m_short_option_prefix
     \/ option_specifier = m_long_option_prefix

parse_argument(argument, result, type, data) ==
  IF is_end_indicator(argument)
    THEN Outcome(result, "end_indicator", NoError, data)
    ELSE
      LET pos == find(argument, m_equals)
          assignment_found == pos # npos
          option_specifier == IF assignment_found THEN substr_n(argument, 0, pos)
                                                  ELSE argument
          option_argument == IF assignment_found
                               THEN substr(argument, pos + Len(m_equals))
                               ELSE <<>>
      IN
      IF bad_assignment(option_specifier, assignment_found)
        THEN
          Outcome(result, type,
                  parse_error("InvalidOption", option_specifier \o m_equals), data)
      ELSE IF is_long_option(option_specifier)
        THEN
          LET option_name == substr(option_specifier, Len(m_long_option_prefix))
              opt == find_option_long(option_name)
          IN
          IF opt = nullptr
            THEN Outcome(result, type, parse_error("InvalidOption", option_specifier),
                         data)
          ELSE IF Deref(opt).m_arg_name = <<>> /\ assignment_found
            THEN Outcome(result, type,
                         parse_error("UnexpectedArgument", option_specifier), data)
          ELSE
            LET new_type ==
                  IF Deref(opt).m_arg_name # <<>> /\ ~assignment_found
                    THEN IF Deref(opt).m_arg_required THEN "arg_required"
                                                      ELSE "arg_optional"
                    ELSE "no_arg"
                arg_info ==
                  [item EXCEPT !.argument = IF Deref(opt).m_arg_name # <<>>
                                                  /\ assignment_found
                                               THEN option_argument ELSE <<>>,
                               !.original_text = argument,
                               !.original_without_argument = option_specifier,
                               !.is_option = TRUE,
                               !.long_name = option_name,
                               !.short_name = Deref(opt).m_short_name,
                               !.opt_info = opt]
                w == IF assignment_found
                       THEN write_option_argument(opt, arg_info, data)
                       ELSE Written(NoError, data)
            IN IF w.error # NoError
                 THEN Outcome(result, new_type, w.error, w.data)
                 ELSE Outcome(Append(result, arg_info), new_type, NoError,
                              write_bool(opt, TRUE, w.data))
      ELSE IF is_short_option_group(option_specifier)
        THEN parse_short_option_group(
               substr(option_specifier, Len(m_short_option_prefix)),
               option_argument, assignment_found, result, type, data)
      ELSE \* not an option
        Outcome(Append(result, [item EXCEPT !.original_text = argument]),
                "non_option", NoError, data)

(* ---------------------------------------------------------------------- *)
(* utility::split                                                          *)
(* ---------------------------------------------------------------------- *)

\* the arguments that parser::parse(cmd_line) and the defaults of split
\* give for delims, quotes and escape_char
delims == <<" ", "\t", "\n", "\r">>
quotes == <<"\"", "'">>
escape_char == "\\"

\* std::string::find(ch): the first position of the character, or npos
find_char(chars, ch) ==
  IF \E i \in 1..Len(chars) : chars[i] = ch
    THEN (CHOOSE i \in 1..Len(chars) :
            chars[i] = ch /\ \A j \in 1..(i - 1) : chars[j] # ch) - 1
    ELSE npos

\* the locals of split
SplitLocals(pos, escape_next, in_quotes, quote_index, cur_token) ==
  [pos |-> pos, escape_next |-> escape_next, in_quotes |-> in_quotes,
   quote_index |-> quote_index, cur_token |-> cur_token]

\* split up to its loop
split_begin == SplitLocals(0, FALSE, FALSE, 0, <<>>)

\* value of an iteration of split: the locals and what was written to dest
SplitOutcome(l, dest) == [locals |-> l, dest |-> dest]

\* emit that keeps every component
emit_always(cur_token, allow_empty, dest) == Append(dest, cur_token)

\* *dest++ = cur_token unless the token is empty and empty tokens are not
\* allowed
emit(cur_token, allow_empty, dest) ==
  IF cur_token # <<>> \/ allow_empty THEN Append(dest, cur_token) ELSE dest

\* is_escape that knows no escape inside quotes
is_escape_outside_quotes(l, ch) ==
  ~l.escape_next /\ ch = escape_char /\ ~l.in_quotes

\* the character is an escape character that is not escaped itself
is_escape(l, ch) == ~l.escape_next /\ ch = escape_char

\* closes_quote that takes any quote character
closes_quote_any(l, ch) == find_char(quotes, ch) # npos

\* the character is the one that opened the quoted span
closes_quote(l, ch) == ch = quotes[l.quote_index + 1]

\* one iteration of the while loop of split on the character ch
split_char(l, ch, allow_empty, dest) ==
  IF l.in_quotes
    THEN
      IF l.escape_next \/ ~closes_quote(l, ch)
        THEN
          IF is_escape(l, ch)
            THEN SplitOutcome([l EXCEPT !.escape_next = TRUE, !.pos = @ + 1], dest)
            ELSE SplitOutcome([l EXCEPT !.cur_token = Append(@, ch),
                                        !.escape_next = FALSE,
                                        !.pos = @ + 1], dest)
        ELSE SplitOutcome([l EXCEPT !.in_quotes = FALSE, !.pos = @ + 1], dest)
    ELSE
      IF l.escape_next \/ find_char(delims, ch) = npos
        THEN
          IF is_escape(l, ch)
            THEN SplitOutcome([l EXCEPT !.escape_next = TRUE, !.pos = @ + 1], dest)
          ELSE IF l.escape_next
            THEN SplitOutcome([l EXCEPT !.cur_token = Append(@, ch),
                                        !.escape_next = FALSE,
                                        !.pos = @ + 1], dest)
          ELSE IF find_char(quotes, ch) # npos
            THEN SplitOutcome([l EXCEPT !.quote_index = find_char(quotes, ch),
                                        !.in_quotes = TRUE,
                                        !.pos = @ + 1], dest)
          ELSE SplitOutcome([l EXCEPT !.quote_index = npos,
                                      !.cur_token = Append(@, ch),
                                      !.pos = @ + 1], dest)
        ELSE \* a delimiter
          SplitOutcome([l EXCEPT !.cur_token = <<>>, !.pos = @ + 1],
                       emit(l.cur_token, allow_empty, dest))

(* ---------------------------------------------------------------------- *)
(* Command lines                                                           *)
(* ---------------------------------------------------------------------- *)

\* the tokens a command line is made of: plain arguments, the end marker,
\* long options and short option groups of every argument policy, with and
\* without assignment symbol, registered and not.  The options they name
\* are bound to no variable, to a flag or to a string (output, color),
\* which write_option_argument always accepts.
Tokens ==
  { <<"x">>,                                   \* plain argument
    <<"-">>,                                   \* lone short prefix
    <<"-", "-">>,                              \* end-of-options marker
    <<"-", "-", "a", "l", "l">>,               \* --all
    <<"-", "-", "a", "l", "l", "=", "x">>,     \* --all=x
    <<"-", "-", "o", "u", "t", "p", "u", "t">>,        \* --output
    <<"-", "-", "o", "u", "t", "p", "u", "t", "=">>,   \* --output=
    <<"-", "-", "c", "o", "l", "o", "r">>,     \* --color
    <<"-", "-", "n", "o">>,                    \* --no (not registered)
    <<"-", "a">>,                              \* -a
    <<"-", "o">>,                              \* -o
    <<"-", "c">>,                              \* -c
    <<"-", "a", "n">>,                         \* -an
    <<"-", "n", "o">>,                         \* -no
    <<"-", "a", "n", "=", "x">>,               \* -an=x
    <<"-", "a", "q">>,                         \* -aq (q not registered)
    <<"-", "=">>,                              \* -=
    <<"k", "=", "v">> }                        \* plain argument with '='

RECURSIVE SeqsUpTo(_, _)
\* the sequences over S of length at most n
SeqsUpTo(S, n) ==
  IF n = 0 THEN {<<>>}
  ELSE LET shorter == SeqsUpTo(S, n - 1)
       IN shorter \cup {Append(s, t) : s \in {q \in shorter : Len(q) = n - 1}, t \in S}

CommandLines == SeqsUpTo(Tokens, MaxArgs)

(* ---------------------------------------------------------------------- *)
(* parse                                                                   *)
(* ---------------------------------------------------------------------- *)

VARIABLES
  args,          \* [first, last): the tokens handed to parse
  ignore_first,  \* parameter of parse
  overload,      \* the overload of parse that was called: "range",
                 \* "argv" or "string", with "_default" if ignore_first
                 \* was not given; "none" before any call
  it,            \* index into args of the token under examination
  result,        \* the local parser_result
  prev_type,     \* the local cl_arg_type
  pc,            \* "loop", "returned" or "thrown"
  error,         \* the exception that left parse, NoError if none
  returned,      \* what the caller receives: <<result>> or <<>> if nothing
  data,          \* the variables bound to the options
  calls,         \* number of calls of parse on this parser, this one included
  str,           \* the text handed to split
  allow_empty,   \* parameter of split
  split_locals,  \* the locals of split
  dest           \* the tokens split has written

\* a result_iterator<T, Ptr, Ref, IsOption> on the result
VARIABLES
  m_result,      \* nullptr, or the address of the result it iterates over
  m_index,       \* index of the current entry, from 0
  IsOption       \* the kind of entry it stops at: options or no options

iterator_vars == <<m_result, m_index, IsOption>>

\* what m_result is for an iterator constructed on the result
address_of_result == <<1>>

\* no iterator has been constructed
NoIterator ==
  /\ m_result = nullptr
  /\ m_index = 0
  /\ IsOption = FALSE

vars == <<args, ignore_first, overload, it, result, prev_type, pc, error, returned, data, calls,
          str, allow_empty, split_locals, dest, parser_vars, iterator_vars>>

\* what belongs to split
split_vars == <<str, allow_empty, split_locals, dest>>

\* the locals of parse and the variables it writes through the options as
\* one record
State(i, r, t, p, e, ret, d) ==
  [it |-> i, result |-> r, prev_type |-> t, pc |-> p, error |-> e, returned |-> ret,
   data |-> d]

\* parse_begin that never skips a token
parse_begin_keeps_first(a, ign, d) ==
  State(1, <<>>, "non_option", "loop", NoError, <<>>, d)

\* parse up to the loop: skip the first token if asked, nothing parsed yet
parse_begin(a, ign, d) ==
  State(IF ign /\ a # <<>> THEN 2 ELSE 1, <<>>, "non_option", "loop", NoError, <<>>, d)

\* throw that hands the entries built so far to the caller
throw_returns_partial(s, e) ==
  [s EXCEPT !.pc = "thrown", !.error = e, !.returned = <<s.result>>]

\* an exception leaves parse: the local result is given up, nothing returned
throw(s, e) == [s EXCEPT !.pc = "thrown", !.error = e]

expects_argument(s) == s.prev_type \in {"arg_required", "arg_optional"}

\* the test that decides whether a standalone argument was provided
is_non_option(arg) ==
  ~is_end_indicator(arg) /\ ~is_long_option(arg) /\ ~is_short_option_group(arg)

\* take_argument that writes the argument into the first entry
take_argument_first_entry(s, arg) ==
  LET arg_info == [s.result[1] EXCEPT !.argument = arg,
                                      !.original_text = (@ \o <<" ">>) \o arg]
      taken == [s EXCEPT !.result = [s.result EXCEPT ![1] = arg_info],
                         !.prev_type = "non_option"]
      w == IF arg_info.opt_info # nullptr
             THEN write_option_argument(arg_info.opt_info, arg_info, s.data)
             ELSE Written(NoError, s.data)
  IN IF w.error # NoError
       THEN [taken EXCEPT !.pc = "thrown", !.error = w.error, !.data = w.data]
       ELSE [taken EXCEPT !.data = w.data, !.it = s.it + 1]

\* take_argument that goes on expecting an argument
take_argument_stays_pending(s, arg) ==
  LET n == Len(s.result)
      arg_info == [s.result[n] EXCEPT !.argument = arg,
                                      !.original_text = (@ \o <<" ">>) \o arg]
      taken == [s EXCEPT !.result = [s.result EXCEPT ![n] = arg_info]]
      w == IF arg_info.opt_info # nullptr
             THEN write_option_argument(arg_info.opt_info, arg_info, s.data)
             ELSE Written(NoError, s.data)
  IN IF w.error # NoError
       THEN throw([taken EXCEPT !.data = w.data], w.error)
       ELSE [taken EXCEPT !.data = w.data, !.it = s.it + 1]

\* take_argument that appends the token to the text without a space
take_argument_no_space(s, arg) ==
  LET n == Len(s.result)
      arg_info == [s.result[n] EXCEPT !.argument = arg,
                                      !.original_text = @ \o arg]
      taken == [s EXCEPT !.result = [s.result EXCEPT ![n] = arg_info],
                         !.prev_type = "non_option"]
      w == IF arg_info.opt_info # nullptr
             THEN write_option_argument(arg_info.opt_info, arg_info, s.data)
             ELSE Written(NoError, s.data)
  IN IF w.error # NoError
       THEN throw([taken EXCEPT !.data = w.data], w.error)
       ELSE [taken EXCEPT !.data = w.data, !.it = s.it + 1]

\* loop body, a standalone argument is expected and the token is one
take_argument(s, arg) ==
  LET n == Len(s.result)
      arg_info == [s.result[n] EXCEPT !.argument = arg,
                                      !.original_text = (@ \o <<" ">>) \o arg]
      taken == [s EXCEPT !.result = [s.result EXCEPT ![n] = arg_info],
                         !.prev_type = "non_option"]
      w == IF arg_info.opt_info # nullptr
             THEN write_option_argument(arg_info.opt_info, arg_info, s.data)
             ELSE Written(NoError, s.data)
  IN IF w.error # NoError
       THEN throw([taken EXCEPT !.data = w.data], w.error)
       ELSE [taken EXCEPT !.data = w.data, !.it = s.it + 1]

\* no_argument that has the empty argument written to the bound variable
no_argument_writes_empty(s) ==
  IF s.prev_type = "arg_required"
    THEN throw(s, parse_error("MissingArgument", s.result[Len(s.result)].original_text))
    ELSE LET w == write_option_argument(s.result[Len(s.result)].opt_info,
                                        s.result[Len(s.result)], s.data)
         IN IF w.error # NoError
              THEN throw([s EXCEPT !.data = w.data], w.error)
              ELSE [s EXCEPT !.prev_type = "non_option", !.data = w.data]

\* no_argument that leaves the optional argument pending
no_argument_keeps_pending(s) ==
  IF s.prev_type = "arg_required"
    THEN throw(s, parse_error("MissingArgument", s.result[Len(s.result)].original_text))
    ELSE s

\* no_argument that moves on to the next token
no_argument_skips_token(s) ==
  IF s.prev_type = "arg_required"
    THEN throw(s, parse_error("MissingArgument", s.result[Len(s.result)].original_text))
    ELSE [s EXCEPT !.prev_type = "non_option", !.it = s.it + 1]

\* no_argument that lets a mandatory argument go missing
no_argument_never_throws(s) == [s EXCEPT !.prev_type = "non_option"]

\* loop body, a standalone argument is expected and the token is not one
no_argument(s) ==
  IF s.prev_type = "arg_required"
    THEN throw(s, parse_error("MissingArgument", s.result[Len(s.result)].original_text))
    ELSE [s EXCEPT !.prev_type = "non_option"]  \* continue without ++it

\* ignore_options that forgets the end-of-options marker
ignore_options_once(s, arg) ==
  [s EXCEPT !.result = Append(s.result, [item EXCEPT !.original_text = arg]),
            !.prev_type = "non_option",
            !.it = s.it + 1]

\* ignore_options that records the token as the argument of its entry
ignore_options_as_argument(s, arg) ==
  [s EXCEPT !.result = Append(s.result, [item EXCEPT !.original_text = arg,
                                                     !.argument = arg]),
            !.it = s.it + 1]

\* loop body after the end-of-options marker
ignore_options(s, arg) ==
  [s EXCEPT !.result = Append(s.result, [item EXCEPT !.original_text = arg]),
            !.it = s.it + 1]

\* regular_argument that keeps an assigned argument pending
regular_argument_still_pending(s, arg) ==
  LET out == parse_argument(arg, s.result, s.prev_type, s.data)
      after == [s EXCEPT !.result = out.result,
                         !.prev_type = IF out.type = "no_arg"
                                            /\ find(arg, m_equals) # npos
                                         THEN "arg_optional" ELSE out.type,
                         !.data = out.data]
  IN IF out.error # NoError
       THEN throw(after, out.error)
       ELSE [after EXCEPT !.it = s.it + 1]

\* loop body, regular argument
regular_argument(s, arg) ==
  LET out == parse_argument(arg, s.result, s.prev_type, s.data)
      after == [s EXCEPT !.result = out.result, !.prev_type = out.type,
                         !.data = out.data]
  IN IF out.error # NoError
       THEN throw(after, out.error)
       ELSE [after EXCEPT !.it = s.it + 1]

\* parse_end without the check for a mandatory argument
parse_end_unchecked(s) == [s EXCEPT !.pc = "returned", !.returned = <<s.result>>]

\* after the loop
parse_end(s) ==
  IF s.prev_type = "arg_required"
    THEN throw(s, parse_error("MissingArgument", s.result[Len(s.result)].original_text))
    ELSE [s EXCEPT !.pc = "returned", !.returned = <<s.result>>]

\* one iteration of the while loop of parse, or what follows the loop
parse_step(a, s) ==
  IF s.it > Len(a) THEN parse_end(s)
  ELSE IF expects_argument(s)
    THEN IF is_non_option(a[s.it]) THEN take_argument(s, a[s.it])
                                   ELSE no_argument(s)
  ELSE IF s.prev_type = "end_indicator" THEN ignore_options(s, a[s.it])
  ELSE regular_argument(s, a[s.it])

RECURSIVE parse_loop(_, _)
\* the while loop of parse run from the locals s until it ends or throws
parse_loop(a, s) ==
  IF s.pc # "loop" \/ s.it > Len(a) THEN s ELSE parse_loop(a, parse_step(a, s))

\* parse run to completion from the locals s
parse_from(a, s) ==
  LET after == parse_loop(a, s)
  IN IF after.pc # "loop" THEN after ELSE parse_end(after)

\* parse(first, last, ignore_first) as a whole, with the bound variables as
\* they are when it is called
parse(a, ign, d) == parse_from(a, parse_begin(a, ign, d))

(* ---------------------------------------------------------------------- *)
(* The state machine                                                       *)
(* ---------------------------------------------------------------------- *)

Locals == State(it, result, prev_type, pc, error, returned, data)

Becomes(s) ==
  /\ it' = s.it
  /\ result' = s.result
  /\ prev_type' = s.prev_type
  /\ pc' = s.pc
  /\ error' = s.error
  /\ returned' = s.returned
  /\ data' = s.data
  /\ UNCHANGED <<args, ignore_first, overload, calls, split_vars, parser_vars, iterator_vars>>

\* parse is given its tokens by the caller: split is not called
NoSplit ==
  /\ str = <<>>
  /\ allow_empty = FALSE
  /\ split_locals = split_begin
  /\ dest = <<>>

Init ==
  /\ example_parser
  /\ args \in CommandLines
  /\ ignore_first \in BOOLEAN
  /\ overload = "range"
  /\ it = parse_begin(args, ignore_first, bound_variables).it
  /\ result = <<>>
  /\ prev_type = "non_option"
  /\ pc = "loop"
  /\ error = NoError
  /\ returned = <<>>
  /\ data = bound_variables
  /\ calls = 1
  /\ NoSplit
  /\ NoIterator

InLoop == pc = "loop" /\ it <= Len(args)

TakeArgument ==
  /\ InLoop /\ expects_argument(Locals) /\ is_non_option(args[it])
  /\ Becomes(take_argument(Locals, args[it]))

NoArgument ==
  /\ InLoop /\ expects_argument(Locals) /\ ~is_non_option(args[it])
  /\ Becomes(no_argument(Locals))

IgnoreOptions ==
  /\ InLoop /\ ~expects_argument(Locals) /\ prev_type = "end_indicator"
  /\ Becomes(ignore_options(Locals, args[it]))

RegularArgument ==
  /\ InLoop /\ ~expects_argument(Locals) /\ prev_type # "end_indicator"
  /\ Becomes(regular_argument(Locals, args[it]))

ParseEnd ==
  /\ pc = "loop" /\ it > Len(args)
  /\ Becomes(parse_end(Locals))

Next == TakeArgument \/ NoArgument \/ IgnoreOptions \/ RegularArgument \/ ParseEnd

Spec == Init /\ [][Next]_vars

\* a step of parse that changes the state can be taken: this is
\* ENABLED <<Next>>_vars, as the disjuncts of Next are the branches of
\* parse_step and leave everything but the locals and data unchanged
next_enabled == pc = "loop" /\ parse_step(args, Locals) # Locals

\* the loop of parse runs on, a step that can be taken is taken: weak
\* fairness of Next, WF_vars(Next), with ENABLED written as next_enabled
SpecFair == Spec /\ ([]<>~next_enabled \/ []<><<Next>>_vars)

\* argument texts that a short option can carry attached or standalone
Files ==
  { <<"x">>, <<"o">>, <<"x", "y">>, <<"x", "=", "y">>, <<"x", "=">>, <<"x", "-">> }

\* the tokens of command lines with attached short option arguments
AttachedTokens ==
  { (m_short_option_prefix \o ch) \o f :
      ch \in {<<"o">>, <<"c">>}, f \in Files }
  \cup { <<"-", "-">>, <<"-", "o">>, <<"-", "c">>, <<"-", "a">>, <<"x">>,
         <<"-", "o", "=", "x">> }

InitAttached ==
  /\ example_parser
  /\ args \in SeqsUpTo(AttachedTokens, MaxArgs)
  /\ ignore_first \in BOOLEAN
  /\ overload = "range"
  /\ it = parse_begin(args, ignore_first, bound_variables).it
  /\ result = <<>>
  /\ prev_type = "non_option"
  /\ pc = "loop"
  /\ error = NoError
  /\ returned = <<>>
  /\ data = bound_variables
  /\ calls = 1
  /\ NoSplit
  /\ NoIterator

SpecAttached == InitAttached /\ [][Next]_vars

\* longest command line with short option groups that hold an argument
MaxClusterArgs == 2

\* the tokens of command lines with short option groups in which an
\* option that takes an argument is followed by characters: by options
\* with and without presence flag, by a character that names no option, by
\* the assignment symbol, with text after it (-ov=q, -t1=2) and without
\* (-aov=); with options in front of it or not; the option
\* bound to a string, to nothing, to a number; and groups without such an
\* option, with a character that names no option
ClusterTokens ==
  { <<"-", "o", "f">>, <<"-", "o", "q">>, <<"-", "a", "o", "f", "v">>,
    <<"-", "f", "o", "q", "v">>, <<"-", "c", "v">>, <<"-", "c", "o">>,
    <<"-", "o", "v", "=", "q">>, <<"-", "t", "v">>, <<"-", "t", "1">>,
    <<"-", "a", "o">>, <<"-", "q", "o">>, <<"-", "a", "f">>,
    <<"-", "a", "o", "v", "=">>, <<"-", "t", "1", "=", "2">>,
    <<"x">>, <<"-", "-">> }

InitCluster ==
  /\ example_parser
  /\ args \in SeqsUpTo(ClusterTokens, MaxClusterArgs)
  /\ ignore_first = FALSE
  /\ overload = "range"
  /\ it = parse_begin(args, ignore_first, bound_variables).it
  /\ result = <<>>
  /\ prev_type = "non_option"
  /\ pc = "loop"
  /\ error = NoError
  /\ returned = <<>>
  /\ data = bound_variables
  /\ calls = 1
  /\ NoSplit
  /\ NoIterator

SpecCluster == InitCluster /\ [][Next]_vars

\* longest command line with options written with the assignment symbol
MaxAssignedArgs == 2

\* the tokens of command lines with assigned arguments: long options and
\* short options that take an argument, with a text, an empty text and a
\* text that holds the assignment symbol; a group that ends in such an
\* option; an option bound to an unsigned variable with texts it accepts
\* and rejects; plain arguments that hold the assignment symbol; and the
\* tokens that may follow
AssignedTokens ==
  { <<"-", "-", "o", "u", "t", "p", "u", "t">> \o m_equals \o <<"v">>,
    <<"-", "-", "o", "u", "t", "p", "u", "t">> \o m_equals,
    <<"-", "-", "o", "u", "t", "p", "u", "t">> \o m_equals \o <<"a">> \o m_equals \o <<"b">>,
    <<"-", "-", "c", "o", "l", "o", "r">> \o m_equals \o <<"-", "a">>,
    <<"-", "o">> \o m_equals \o <<"v">>,
    <<"-", "o">> \o m_equals,
    <<"-", "c">> \o m_equals \o <<"-", "-">>,
    <<"-", "a", "o">> \o m_equals \o <<"v">>,
    <<"-", "-", "i", "n", "d", "e", "n", "t">> \o m_equals \o <<"5">>,
    <<"-", "-", "i", "n", "d", "e", "n", "t">> \o m_equals \o <<"x">>,
    <<"-", "-", "i", "n", "d", "e", "n", "t">> \o m_equals,
    <<"k">> \o m_equals \o <<"v">>,
    m_equals \o <<"x">>,
    (<<"x">> \o m_equals) \o <<"-", "-", "a", "l", "l">>,
    <<"x">>, <<"-", "a">>, <<"-", "o">>, <<"-", "-">> }

InitAssigned ==
  /\ example_parser
  /\ args \in SeqsUpTo(AssignedTokens, MaxAssignedArgs)
  /\ ignore_first = FALSE
  /\ overload = "range"
  /\ it = parse_begin(args, ignore_first, bound_variables).it
  /\ result = <<>>
  /\ prev_type = "non_option"
  /\ pc = "loop"
  /\ error = NoError
  /\ returned = <<>>
  /\ data = bound_variables
  /\ calls = 1
  /\ NoSplit
  /\ NoIterator

SpecAssigned == InitAssigned /\ [][Next]_vars

\* longest command line with unknown options that are assigned a value
MaxUnknownArgs == 2

\* the tokens of command lines with an assignment to a name that no option
\* has: a long name; a group of options without argument with a character
\* that names no option, first, last or in the middle; with and without
\* text after the symbol.  With them the same without assignment, the
\* assignment to options that take none, a group in which the unknown
\* character is the argument of an option, and the tokens that may stand
\* before them.
UnknownTokens ==
  { <<"-", "-", "n", "o">> \o m_equals \o <<"x">>,
    <<"-", "-", "n", "o">> \o m_equals,
    <<"-", "q">> \o m_equals \o <<"x">>,
    <<"-", "a", "q">> \o m_equals \o <<"x">>,
    <<"-", "q", "a">> \o m_equals \o <<"x">>,
    <<"-", "a", "q", "n">> \o m_equals,
    <<"-", "-", "n", "o">>, <<"-", "q", "a">>,
    <<"-", "-", "a", "l", "l">> \o m_equals \o <<"x">>,
    <<"-", "a", "n">> \o m_equals \o <<"x">>,
    <<"-", "o", "q">> \o m_equals \o <<"x">>,
    <<"-", "q", "o">> \o m_equals \o <<"x">>,
    <<"-", "-", "c", "o", "l", "o", "r">>, <<"-", "a">>, <<"x">>, <<"-", "-">> }

InitUnknown ==
  /\ example_parser
  /\ args \in SeqsUpTo(UnknownTokens, MaxUnknownArgs)
  /\ ignore_first = FALSE
  /\ overload = "range"
  /\ it = parse_begin(args, ignore_first, bound_variables).it
  /\ result = <<>>
  /\ prev_type = "non_option"
  /\ pc = "loop"
  /\ error = NoError
  /\ returned = <<>>
  /\ data = bound_variables
  /\ calls = 1
  /\ NoSplit
  /\ NoIterator

SpecUnknown == InitUnknown /\ [][Next]_vars

(* ---------------------------------------------------------------------- *)
(* The parser of the example mygrep                                        *)
(* ---------------------------------------------------------------------- *)

\* longest command line of mygrep
MaxFormArgs == 2

\* groups of the parser of mygrep with the options that take an argument
\* and two that take none; max-count is bound to an unsigned variable and
\* to a flag
mygrep ==
  << option_group(<<"P","a","t","t","e","r","n">>,
     << option(<<"r","e","g","e","x","p">>, "e", <<"P","A","T","T","E","R","N","S">>, TRUE),
        bind_string(option(<<"f","i","l","e">>, "f", <<"F","I","L","E">>, TRUE),
                    "pattern_file") >>),
     option_group(<<"O","u","t","p","u","t">>,
     << bind_bool(bind_uint(option(<<"m","a","x","-","c","o","u","n","t">>, "m",
                                   <<"N","U","M">>, TRUE), "max_lines"),
                  "limit_lines"),
        bind_bool(option(<<"q","u","i","e","t">>, "q", <<>>, FALSE), "quiet"),
        bind_bool(option(<<"c","o","u","n","t">>, "c", <<>>, FALSE), "count_only") >>) >>

\* the members of Options that these options are bound to, as main
\* constructs them
mygrep_variables ==
  [pattern_file |-> <<>>, max_lines |-> zero, limit_lines |-> FALSE,
   quiet |-> FALSE, count_only |-> FALSE]

\* the tokens of command lines of mygrep: the options that take an
\* argument in long and in short form, with an argument that
\* write_option_argument accepts, with one it rejects and with none after
\* the assignment symbol; without assignment; options without argument; a
\* plain argument and the end marker
FormTokens ==
  { f \o m_equals \o t :
      f \in { <<"-", "-", "m", "a", "x", "-", "c", "o", "u", "n", "t">>, <<"-", "m">>,
              <<"-", "-", "f", "i", "l", "e">>, <<"-", "f">> },
      t \in { <<"5">>, <<"x">>, <<>> } }
  \cup { <<"-", "-", "m", "a", "x", "-", "c", "o", "u", "n", "t">>, <<"-", "m">>,
         <<"-", "q">>, <<"-", "-", "c", "o", "u", "n", "t">>, <<"5">>, <<"-", "-">> }

InitForms ==
  /\ default_strings
  /\ m_groups = mygrep
  /\ registered = << <<1, 1>>, <<1, 2>>, <<2, 1>>, <<2, 2>>, <<2, 3>> >>
  /\ args \in SeqsUpTo(FormTokens, MaxFormArgs)
  /\ ignore_first = FALSE
  /\ overload = "argv"
  /\ it = parse_begin(args, ignore_first, mygrep_variables).it
  /\ result = <<>>
  /\ prev_type = "non_option"
  /\ pc = "loop"
  /\ error = NoError
  /\ returned = <<>>
  /\ data = mygrep_variables
  /\ calls = 1
  /\ NoSplit
  /\ NoIterator

SpecForms == InitForms /\ [][Next]_vars

\* the tokens of command lines with options that are not registered and
\* with assignments that follow a bare prefix
MalformedTokens ==
  { <<"-", "=">>,                              \* -=
    <<"-", "=", "x">>,                         \* -=x
    <<"-", "-", "=">>,                         \* --=
    <<"-", "-", "=", "x">>,                    \* --=x
    <<"-", "-", "n", "o">>,                    \* --no (not registered)
    <<"-", "-", "n", "o", "=", "x">>,          \* --no=x
    <<"-", "a", "q">>,                         \* -aq (q not registered)
    <<"-", "q", "a">>,                         \* -qa
    <<"-", "a", "n", "q">>,                    \* -anq
    <<"-", "o", "q">>,                         \* -oq: q is the argument of o
    <<"-", "q", "=", "x">>,                    \* -q=x
    <<"-", "n", "=", "x">>,                    \* -n=x
    <<"-", "a">>,
    <<"-", "o">>,
    <<"-", "-", "c", "o", "l", "o", "r">>,
    <<"-", "-", "a", "l", "l">>,
    <<"-", "-">>,
    <<"x">> }

InitMalformed ==
  /\ example_parser
  /\ args \in SeqsUpTo(MalformedTokens, MaxArgs)
  /\ ignore_first \in BOOLEAN
  /\ overload = "range"
  /\ it = parse_begin(args, ignore_first, bound_variables).it
  /\ result = <<>>
  /\ prev_type = "non_option"
  /\ pc = "loop"
  /\ error = NoError
  /\ returned = <<>>
  /\ data = bound_variables
  /\ calls = 1
  /\ NoSplit
  /\ NoIterator

SpecMalformed == InitMalformed /\ [][Next]_vars

\* argument texts for the unsigned variable of --indent: integers around
\* the limits of unsigned and long long, signs, spaces, and texts that are
\* no integers
UintTexts ==
  { <<"1", "3">>,
    <<"0">>,
    <<"-", "3", "2">>,
    <<"-", "0">>,
    <<"t", "w", "o">>,
    <<"2", ".", "5">>,
    <<"5", "b", "i", "l", "l", "i", "o", "n">>,
    <<>>,
    <<" ", "7">>,
    <<"7", " ">>,
    <<"+", "5">>,
    <<"0", "0", "7">>,
    <<"4", "2", "9", "4", "9", "6", "7", "2", "9", "5">>,
    <<"4", "2", "9", "4", "9", "6", "7", "2", "9", "6">>,
    <<"9", "2", "2", "3", "3", "7", "2", "0", "3", "6", "8", "5", "4", "7", "7", "5", "8", "0", "7">>,
    <<"9", "2", "2", "3", "3", "7", "2", "0", "3", "6", "8", "5", "4", "7", "7", "5", "8", "0", "8">>,
    <<"-", "9", "2", "2", "3", "3", "7", "2", "0", "3", "6", "8", "5", "4", "7", "7", "5", "8", "0", "8">>,
    <<"-", "9", "2", "2", "3", "3", "7", "2", "0", "3", "6", "8", "5", "4", "7", "7", "5", "8", "0", "9">>,
    <<"9", "9", "9", "9", "9", "9", "9", "9", "9", "9", "9", "9", "9", "9", "9", "9", "9", "9", "9", "9", "x">> }

\* argument texts for the int variable of --net-worth
IntTexts ==
  { <<"-", "4", "8">>,
    <<"0">>,
    <<"2", "1", "4", "7", "4", "8", "3", "6", "4", "7">>,
    <<"2", "1", "4", "7", "4", "8", "3", "6", "4", "8">>,
    <<"-", "2", "1", "4", "7", "4", "8", "3", "6", "4", "8">>,
    <<"-", "2", "1", "4", "7", "4", "8", "3", "6", "4", "9">>,
    <<"-", "0", ".", "9">>,
    <<"5", "b", "i", "l", "l", "i", "o", "n">>,
    <<"2", "1", "4", "7", "4", "8", "3", "6", "4", "8", "x">> }

\* argument texts for the double variable of -t
DoubleTexts ==
  { <<"1", "0", "0", "f">>,
    <<"x", "x", "x">>,
    <<"2", ".", "5", "5", "9", "e", "-", "4">>,
    <<"-", "1", "2", ".", "0", "8", "e", "+", "4">>,
    <<"1", "0", "0">>,
    <<".", "5">>,
    <<"5", ".">>,
    <<"1", "e">>,
    <<".">>,
    <<"1", "e", "5", "x">> }

\* the tokens of command lines that give arguments to the options bound to
\* numeric variables, attached with the assignment symbol or standalone
BoundTokens ==
  { <<"-", "-", "i", "n", "d", "e", "n", "t">> \o m_equals \o t : t \in UintTexts }
  \cup { <<"-", "-", "n", "e", "t", "-", "w", "o", "r", "t", "h">> \o m_equals \o t : t \in IntTexts }
  \cup { <<"-", "t">> \o m_equals \o t : t \in DoubleTexts }
  \cup { <<"-", "-", "i", "n", "d", "e", "n", "t">>, <<"-", "-", "n", "e", "t", "-", "w", "o", "r", "t", "h">>, <<"-", "t">>,
         <<"1", "3">>, <<"t", "w", "o">>, <<"4", "2", "9", "4", "9", "6", "7", "2", "9", "6">>, <<"x", "x", "x">>,
         <<"-", "f">>, <<"-", "-">> }

InitBound ==
  /\ example_parser
  /\ args \in SeqsUpTo(BoundTokens, MaxBoundArgs)
  /\ ignore_first \in BOOLEAN
  /\ overload = "range"
  /\ it = parse_begin(args, ignore_first, bound_variables).it
  /\ result = <<>>
  /\ prev_type = "non_option"
  /\ pc = "loop"
  /\ error = NoError
  /\ returned = <<>>
  /\ data = bound_variables
  /\ calls = 1
  /\ NoSplit
  /\ NoIterator

SpecBound == InitBound /\ [][Next]_vars

\* the tokens of the command lines that one parser parses one after the
\* other: options bound to flags, with and without argument, a plain
\* argument and the end marker
CallTokens ==
  { <<"-", "-", "h", "e", "l", "p">>, <<"-", "o">>, <<"x">>, <<"-", "-">> }

\* the first call of parse(cmd_line), whose ignore_first is false
InitCalls ==
  /\ example_parser
  /\ args \in SeqsUpTo(CallTokens, MaxCallArgs)
  /\ ignore_first = FALSE
  /\ overload = "range"
  /\ it = parse_begin(args, ignore_first, bound_variables).it
  /\ result = <<>>
  /\ prev_type = "non_option"
  /\ pc = "loop"
  /\ error = NoError
  /\ returned = <<>>
  /\ data = bound_variables
  /\ calls = 1
  /\ NoSplit
  /\ NoIterator

\* the caller calls parse again on the same parser: new locals, the bound
\* variables as the calls before left them
ParseAgain ==
  /\ pc \in {"returned", "thrown"}
  /\ calls < MaxCalls
  /\ \E a \in SeqsUpTo(CallTokens, MaxCallArgs) :
       LET s == parse_begin(a, FALSE, data)
       IN /\ args' = a
          /\ ignore_first' = FALSE
          /\ overload' = "range"
          /\ it' = s.it
          /\ result' = s.result
          /\ prev_type' = s.prev_type
          /\ pc' = s.pc
          /\ error' = s.error
          /\ returned' = s.returned
          /\ data' = s.data
  /\ calls' = calls + 1
  /\ UNCHANGED <<split_vars, parser_vars, iterator_vars>>

NextCalls ==
  TakeArgument \/ NoArgument \/ IgnoreOptions \/ RegularArgument \/ ParseEnd
    \/ ParseAgain

SpecCalls == InitCalls /\ [][NextCalls]_vars

\* the characters of the texts that are split: a plain character, a
\* delimiter, the two quote characters and the escape character
SplitChars == {"a", " ", "\"", "'", "\\"}

\* split(str, dest, delims, quotes, escape_char, allow_empty) is called;
\* parse is not
InitSplit ==
  /\ example_parser
  /\ NoIterator
  /\ str \in SeqsUpTo(SplitChars, MaxLen)
  /\ allow_empty \in BOOLEAN
  /\ split_locals = split_begin
  /\ dest = <<>>
  /\ pc = "split"
  /\ args = <<>>
  /\ ignore_first = FALSE
  /\ overload = "none"
  /\ it = 1
  /\ result = <<>>
  /\ prev_type = "non_option"
  /\ error = NoError
  /\ returned = <<>>
  /\ data = bound_variables
  /\ calls = 0

\* the variables of parse
parse_vars ==
  <<args, ignore_first, overload, it, result, prev_type, error, returned, data, calls>>

\* one iteration of the while loop of split
SplitChar ==
  /\ pc = "split"
  /\ split_locals.pos < Len(str)
  /\ split_locals' = split_char(split_locals, str[split_locals.pos + 1],
                                allow_empty, dest).locals
  /\ dest' = split_char(split_locals, str[split_locals.pos + 1],
                        allow_empty, dest).dest
  /\ UNCHANGED <<pc, str, allow_empty, parse_vars, parser_vars, iterator_vars>>

\* SplitEnd that writes no token for a quoted span left open
SplitEnd_closed_only ==
  /\ pc = "split"
  /\ split_locals.pos = Len(str)
  /\ dest' = IF split_locals.in_quotes
               THEN dest
               ELSE emit(split_locals.cur_token, allow_empty, dest)
  /\ pc' = "split_done"
  /\ UNCHANGED <<str, allow_empty, split_locals, parse_vars, parser_vars, iterator_vars>>

\* after the loop of split: the last token
SplitEnd ==
  /\ pc = "split"
  /\ split_locals.pos = Len(str)
  /\ dest' = emit(split_locals.cur_token, allow_empty, dest)
  /\ pc' = "split_done"
  /\ UNCHANGED <<str, allow_empty, split_locals, parse_vars, parser_vars, iterator_vars>>

NextSplit == SplitChar \/ SplitEnd

SpecSplit == InitSplit /\ [][NextSplit]_vars

\* split runs on: the loop and the code after it are straight-line code
\* of one call, nothing can keep the next statement from being executed
SpecSplitFair == SpecSplit /\ WF_vars(NextSplit)

(* ---------------------------------------------------------------------- *)
(* The overloads of parse                                                  *)
(* ---------------------------------------------------------------------- *)

\* longest command line handed to the overloads
MaxOverloadArgs == 2

\* the default arguments for ignore_first in the declarations of parse
ignore_first_default(called) == IF called = "string" THEN FALSE ELSE TRUE

\* the tokens of the command lines: a plain argument, options, the end
\* marker, an option that is not registered
OverloadTokens ==
  { <<"x">>, <<"-", "-", "h", "e", "l", "p">>, <<"-", "n">>, <<"-", "o">>,
    <<"-", "-">>, <<"-", "-", "n", "o">> }

RECURSIVE join(_)
\* the command line as one string, its tokens separated by a space
join(line) ==
  IF line = <<>> THEN <<>>
  ELSE IF Len(line) = 1 THEN line[1]
  ELSE (line[1] \o <<" ">>) \o join(Tail(line))

\* the parser `example`; parse is not called yet
InitOverloads ==
  /\ example_parser
  /\ args = <<>>
  /\ ignore_first = FALSE
  /\ overload = "none"
  /\ it = 1
  /\ result = <<>>
  /\ prev_type = "non_option"
  /\ pc = "call"
  /\ error = NoError
  /\ returned = <<>>
  /\ data = bound_variables
  /\ calls = 0
  /\ NoSplit
  /\ NoIterator

\* parse(first, last, ign) up to its loop, reached through the overload
\* called
EnterParse(a, ign, called) ==
  /\ args' = a
  /\ ignore_first' = ign
  /\ overload' = called
  /\ calls' = calls + 1
  /\ it' = parse_begin(a, ign, data).it
  /\ result' = <<>>
  /\ prev_type' = "non_option"
  /\ pc' = "loop"
  /\ error' = NoError
  /\ returned' = <<>>
  /\ UNCHANGED <<data, parser_vars, iterator_vars>>

\* example.parse(first, last, ign)
ParseRange ==
  /\ pc = "call"
  /\ \E a \in SeqsUpTo(OverloadTokens, MaxOverloadArgs), ign \in BOOLEAN :
       EnterParse(a, ign, "range")
  /\ UNCHANGED split_vars

\* example.parse(first, last)
ParseRangeDefault ==
  /\ pc = "call"
  /\ \E a \in SeqsUpTo(OverloadTokens, MaxOverloadArgs) :
       EnterParse(a, ignore_first_default("range"), "range_default")
  /\ UNCHANGED split_vars

\* example.parse(argc, argv, ign), which calls parse(argv, argv + argc, ign)
ParseArgv ==
  /\ pc = "call"
  /\ \E a \in SeqsUpTo(OverloadTokens, MaxOverloadArgs), ign \in BOOLEAN :
       EnterParse(a, ign, "argv")
  /\ UNCHANGED split_vars

\* example.parse(argc, argv)
ParseArgvDefault ==
  /\ pc = "call"
  /\ \E a \in SeqsUpTo(OverloadTokens, MaxOverloadArgs) :
       EnterParse(a, ignore_first_default("argv"), "argv_default")
  /\ UNCHANGED split_vars

\* parse(cmd_line, ign) up to the loop of split
EnterSplit(text, ign, called) ==
  /\ str' = text
  /\ allow_empty' = FALSE
  /\ split_locals' = split_begin
  /\ dest' = <<>>
  /\ ignore_first' = ign
  /\ overload' = called
  /\ calls' = calls + 1
  /\ pc' = "split"
  /\ UNCHANGED <<args, it, result, prev_type, error, returned, data, parser_vars, iterator_vars>>

\* example.parse(cmd_line, ign)
ParseString ==
  /\ pc = "call"
  /\ \E a \in SeqsUpTo(OverloadTokens, MaxOverloadArgs), ign \in BOOLEAN :
       EnterSplit(join(a), ign, "string")

\* example.parse(cmd_line)
ParseStringDefault ==
  /\ pc = "call"
  /\ \E a \in SeqsUpTo(OverloadTokens, MaxOverloadArgs) :
       EnterSplit(join(a), ignore_first_default("string"), "string_default")

\* parse(cmd_line, ign) after split: parse(container.begin(),
\* container.end(), ign) up to its loop
ParseContainer ==
  /\ pc = "split_done"
  /\ overload \in {"string", "string_default"}
  /\ args' = dest
  /\ it' = parse_begin(dest, ignore_first, data).it
  /\ result' = <<>>
  /\ prev_type' = "non_option"
  /\ pc' = "loop"
  /\ error' = NoError
  /\ returned' = <<>>
  /\ UNCHANGED <<ignore_first, overload, calls, data, split_vars, parser_vars, iterator_vars>>

NextOverloads ==
  \/ ParseRange \/ ParseRangeDefault \/ ParseArgv \/ ParseArgvDefault
  \/ ParseString \/ ParseStringDefault \/ SplitChar \/ SplitEnd \/ ParseContainer
  \/ Next

SpecOverloads == InitOverloads /\ [][NextOverloads]_vars

(* ---------------------------------------------------------------------- *)
(* Building the option table                                               *)
(* ---------------------------------------------------------------------- *)

\* most add_option calls on one parser
MaxOptions == 3

\* find_group: the index of the first group with the name, 0 for end()
find_group(name) ==
  IF \E g \in DOMAIN m_groups : m_groups[g].m_name = name
    THEN CHOOSE g \in DOMAIN m_groups :
           /\ m_groups[g].m_name = name
           /\ \A h \in 1..(g - 1) : m_groups[h].m_name # name
    ELSE 0

\* the groups after option_group::add_option on group g
group_add_option(groups, g, opt) ==
  [groups EXCEPT ![g].m_options = Append(@, opt)]

\* the groups after parser::group(name): a group of that name is appended
\* if there is none
groups_with(name) ==
  IF \E g \in DOMAIN m_groups : m_groups[g].m_name = name
    THEN m_groups
    ELSE Append(m_groups, option_group(name, <<>>))

\* the group that parser::group(name) returns, as index into groups_with:
\* the last group with the name
group(name) ==
  CHOOSE g \in DOMAIN groups_with(name) :
    /\ groups_with(name)[g].m_name = name
    /\ \A h \in (g + 1)..Len(groups_with(name)) : groups_with(name)[h].m_name # name

\* the groups after parser::add_option(opt): the option goes to the
\* unnamed group, which is appended if there is none
add_option(opt) ==
  IF find_group(<<>>) = 0
    THEN Append(m_groups, option_group(<<>>, <<opt>>))
    ELSE group_add_option(m_groups, find_group(<<>>), opt)

\* the options that are added: two with the long name x, two with the
\* short name x, with different argument policies, and one that shares no
\* name
TableOptions ==
  { option(<<"x">>, "x", <<>>, FALSE),
    option(<<"x">>, NUL, <<"A">>, TRUE),
    option(<<>>, "x", <<"A">>, FALSE),
    option(<<"y">>, "y", <<>>, FALSE) }

\* the name of the one named group
GroupNames == { <<"g">> }

\* the command lines parsed with the table
TableLines ==
  { << <<"-", "-", "x">> >>,
    << <<"-", "x">> >>,
    << <<"-", "-", "y">> >>,
    << <<"-", "-", "x">>, <<"a">> >>,
    << <<"-", "x">>, <<"-", "-">> >>,
    << <<"-", "-">>, <<"-", "-", "x">> >>,
    << <<"-", "y", "x">>, <<"-", "-", "x", "=", "a">> >> }

\* a parser without options; parse is not called yet
InitTable ==
  /\ default_strings
  /\ m_groups = <<>>
  /\ registered = <<>>
  /\ args = <<>>
  /\ ignore_first = FALSE
  /\ overload = "none"
  /\ it = 1
  /\ result = <<>>
  /\ prev_type = "non_option"
  /\ pc = "configure"
  /\ error = NoError
  /\ returned = <<>>
  /\ data = bound_variables
  /\ calls = 0
  /\ NoSplit
  /\ NoIterator

strings_vars ==
  <<m_delims, m_short_option_prefix, m_long_option_prefix, m_end_of_options,
    m_equals>>

\* parser.add_option(opt)
AddOption ==
  /\ pc = "configure"
  /\ Len(registered) < MaxOptions
  /\ \E opt \in TableOptions :
       /\ m_groups' = add_option(opt)
       /\ registered' =
            Append(registered,
                   IF find_group(<<>>) = 0
                     THEN <<Len(m_groups) + 1, 1>>
                     ELSE <<find_group(<<>>),
                            Len(m_groups[find_group(<<>>)].m_options) + 1>>)
  /\ UNCHANGED <<args, ignore_first, overload, it, result, prev_type, pc, error, returned,
                 data, calls, split_vars, strings_vars, iterator_vars>>

\* parser.group(name).add_option(opt)
GroupAddOption ==
  /\ pc = "configure"
  /\ Len(registered) < MaxOptions
  /\ \E name \in GroupNames, opt \in TableOptions :
       /\ m_groups' = group_add_option(groups_with(name), group(name), opt)
       /\ registered' =
            Append(registered,
                   <<group(name), Len(groups_with(name)[group(name)].m_options) + 1>>)
  /\ UNCHANGED <<args, ignore_first, overload, it, result, prev_type, pc, error, returned,
                 data, calls, split_vars, strings_vars, iterator_vars>>

\* parser.parse(first, last, false) up to its loop
TableParse ==
  /\ pc = "configure"
  /\ args' \in TableLines
  /\ ignore_first' = FALSE
  /\ overload' = "range"
  /\ calls' = calls + 1
  /\ it' = parse_begin(args', FALSE, data).it
  /\ result' = <<>>
  /\ prev_type' = "non_option"
  /\ pc' = "loop"
  /\ error' = NoError
  /\ returned' = <<>>
  /\ UNCHANGED <<data, split_vars, parser_vars, iterator_vars>>

NextTable == AddOption \/ GroupAddOption \/ TableParse \/ Next

SpecTable == InitTable /\ [][NextTable]_vars

(* ---------------------------------------------------------------------- *)
(* Custom strings                                                          *)
(* ---------------------------------------------------------------------- *)

\* longest command line that is parsed with custom strings
MaxCustomArgs == 2

\* the strings of the parser as one record
Strings(custom_delims, short_prefix, long_prefix, end_indicator, equals) ==
  [m_delims |-> custom_delims, m_short_option_prefix |-> short_prefix,
   m_long_option_prefix |-> long_prefix, m_end_of_options |-> end_indicator,
   m_equals |-> equals]

\* set_custom_strings that assigns every parameter
set_custom_strings_assigns_all(custom_delims, short_prefix, long_prefix, end_indicator, equals) ==
  Strings(custom_delims, short_prefix, long_prefix, end_indicator, equals)

\* the strings of the parser after set_custom_strings
set_custom_strings(custom_delims, short_prefix, long_prefix, end_indicator, equals) ==
  Strings(IF custom_delims # <<>> THEN custom_delims ELSE m_delims,
          IF short_prefix # <<>> THEN short_prefix ELSE m_short_option_prefix,
          IF long_prefix # <<>> THEN long_prefix ELSE m_long_option_prefix,
          IF end_indicator # <<>> THEN end_indicator ELSE m_end_of_options,
          IF equals # <<>> THEN equals ELSE m_equals)

\* the arguments of set_custom_strings: for each parameter the blank
\* string and the string of the test; for the short prefix also a string
\* that is the default long prefix
CustomDelims == { <<>>, <<".">> }
CustomShortPrefixes == { <<>>, <<"<", ">">>, <<"-", "-">> }
CustomLongPrefixes == { <<>>, <<":", ":", ":">> }
CustomEndIndicators == { <<>>, <<"+", "+", "+">> }
CustomEquals == { <<>>, <<"-", ">">> }

\* the tokens of the command lines: options written with the strings of
\* the parser, the strings alone, a plain argument, and options written
\* with the default strings
CustomTokens ==
  { m_long_option_prefix \o <<"h","e","l","p">>,
    (m_long_option_prefix \o <<"o","u","t","p","u","t">>) \o (m_equals \o <<"f">>),
    m_long_option_prefix \o <<"-","n">>,
    m_short_option_prefix \o <<"n">>,
    m_short_option_prefix \o <<"o">>,
    m_long_option_prefix,
    m_short_option_prefix,
    m_end_of_options,
    <<"x">>,
    <<"-","-","h","e","l","p">>,
    <<"-","n">> }

\* the parser `example`; parse is not called yet
InitCustom ==
  /\ example_parser
  /\ args = <<>>
  /\ ignore_first = FALSE
  /\ overload = "none"
  /\ it = 1
  /\ result = <<>>
  /\ prev_type = "non_option"
  /\ pc = "configure"
  /\ error = NoError
  /\ returned = <<>>
  /\ data = bound_variables
  /\ calls = 0
  /\ NoSplit
  /\ NoIterator

\* example.set_custom_strings(custom_delims, short_prefix, long_prefix,
\* end_indicator, equals)
SetCustomStrings ==
  /\ pc = "configure"
  /\ \E custom_delims \in CustomDelims, short_prefix \in CustomShortPrefixes,
        long_prefix \in CustomLongPrefixes, end_indicator \in CustomEndIndicators,
        equals \in CustomEquals :
       /\ m_delims' = set_custom_strings(custom_delims, short_prefix, long_prefix,
                                         end_indicator, equals).m_delims
       /\ m_short_option_prefix' =
            set_custom_strings(custom_delims, short_prefix, long_prefix,
                               end_indicator, equals).m_short_option_prefix
       /\ m_long_option_prefix' =
            set_custom_strings(custom_delims, short_prefix, long_prefix,
                               end_indicator, equals).m_long_option_prefix
       /\ m_end_of_options' =
            set_custom_strings(custom_delims, short_prefix, long_prefix,
                               end_indicator, equals).m_end_of_options
       /\ m_equals' = set_custom_strings(custom_delims, short_prefix, long_prefix,
                                         end_indicator, equals).m_equals
  /\ UNCHANGED <<args, ignore_first, overload, it, result, prev_type, pc, error, returned,
                 data, calls, split_vars, m_groups, registered, iterator_vars>>

\* example.parse(first, last, false) up to its loop
CustomParse ==
  /\ pc = "configure"
  /\ args' \in SeqsUpTo(CustomTokens, MaxCustomArgs)
  /\ ignore_first' = FALSE
  /\ overload' = "range"
  /\ calls' = calls + 1
  /\ it' = parse_begin(args', FALSE, data).it
  /\ result' = <<>>
  /\ prev_type' = "non_option"
  /\ pc' = "loop"
  /\ error' = NoError
  /\ returned' = <<>>
  /\ UNCHANGED <<data, split_vars, parser_vars, iterator_vars>>

NextCustom == SetCustomStrings \/ CustomParse \/ Next

SpecCustom == InitCustom /\ [][NextCustom]_vars

(* ---------------------------------------------------------------------- *)
(* parser_result                                                           *)
(* ---------------------------------------------------------------------- *)

\* most entries of a result that is queried
MaxEntries == 3

\* std::any_of over the entries: some entry is an option with the long name
is_option_set_long(entries, long_name) ==
  IF long_name = <<>> THEN FALSE
  ELSE \E k \in 1..Len(entries) :
         entries[k].is_option /\ entries[k].long_name = long_name

\* std::any_of over the entries: some entry is an option with the short name
is_option_set_short(entries, short_name) ==
  IF short_name = NUL THEN FALSE
  ELSE \E k \in 1..Len(entries) :
         entries[k].is_option /\ entries[k].short_name = short_name

\* std::find_if from rbegin(): the index of the first option with the long
\* name when going from entry k down to the first, 0 for rend()
RECURSIVE rfind_long(_, _, _)
rfind_long(entries, long_name, k) ==
  IF k = 0 THEN 0
  ELSE IF entries[k].is_option /\ entries[k].long_name = long_name THEN k
  ELSE rfind_long(entries, long_name, k - 1)

\* the same for the short name
RECURSIVE rfind_short(_, _, _)
rfind_short(entries, short_name, k) ==
  IF k = 0 THEN 0
  ELSE IF entries[k].is_option /\ entries[k].short_name = short_name THEN k
  ELSE rfind_short(entries, short_name, k - 1)

\* std::find_if from begin(): the index of the first option with the long
\* name when going from entry k up to the last, 0 for end()
RECURSIVE find_long_from(_, _, _)
find_long_from(entries, long_name, k) ==
  IF k > Len(entries) THEN 0
  ELSE IF entries[k].is_option /\ entries[k].long_name = long_name THEN k
  ELSE find_long_from(entries, long_name, k + 1)

\* get_argument that searches from the front
get_argument_long_from_front(entries, long_name) ==
  IF long_name = <<>> THEN <<>>
  ELSE IF find_long_from(entries, long_name, 1) # 0
    THEN entries[find_long_from(entries, long_name, 1)].argument
  ELSE <<>>

\* parser_result::get_argument(std::string)
get_argument_long(entries, long_name) ==
  IF long_name = <<>> THEN <<>>
  ELSE IF rfind_long(entries, long_name, Len(entries)) # 0
    THEN entries[rfind_long(entries, long_name, Len(entries))].argument
  ELSE <<>>

\* parser_result::get_argument(char)
get_argument_short(entries, short_name) ==
  IF short_name = NUL THEN <<>>
  ELSE IF rfind_short(entries, short_name, Len(entries)) # 0
    THEN entries[rfind_short(entries, short_name, Len(entries))].argument
  ELSE <<>>

\* parsed_entry{original_text, is_option, long_name, short_name, argument}
parsed_entry(original_text, is_option, long_name, short_name, argument) ==
  [item EXCEPT !.original_text = original_text, !.is_option = is_option,
               !.long_name = long_name, !.short_name = short_name,
               !.argument = argument]

\* the entries of the test: version, help, non_option, file, file_sonly,
\* file_lonly (which has a long name but is no option), and a second entry
\* for the option file with another argument
ResultEntries ==
  { parsed_entry(<<"-","-","v","e","r","s","i","o","n">>, TRUE,
                 <<"v","e","r","s","i","o","n">>, NUL, <<>>),
    parsed_entry(<<"-","?">>, TRUE, <<"h","e","l","p">>, "?", <<>>),
    parsed_entry(<<"c","o","m","m","a","n","d">>, FALSE, <<>>, NUL, <<>>),
    parsed_entry(<<"-","f"," ","m">>, TRUE, <<"f","i","l","e">>, "f", <<"m">>),
    parsed_entry(<<"-","f"," ","s">>, TRUE, <<>>, "f", <<"s">>),
    parsed_entry(<<"-","-","f","i","l","e","=","l">>, FALSE, <<"f","i","l","e">>,
                 NUL, <<"l">>),
    parsed_entry(<<"-","-","f","i","l","e","=","x">>, TRUE, <<"f","i","l","e">>,
                 "f", <<"x">>) }

\* parser_result{}: an empty result that the caller fills
InitResult ==
  /\ example_parser
  /\ args = <<>>
  /\ ignore_first = FALSE
  /\ overload = "none"
  /\ it = 1
  /\ result = <<>>
  /\ prev_type = "non_option"
  /\ pc = "result"
  /\ error = NoError
  /\ returned = <<>>
  /\ data = bound_variables
  /\ calls = 0
  /\ NoSplit
  /\ NoIterator

\* result.push_back(entry)
PushBack ==
  /\ pc = "result"
  /\ Len(result) < MaxEntries
  /\ \E entry \in ResultEntries : result' = Append(result, entry)
  /\ UNCHANGED <<args, ignore_first, overload, it, prev_type, pc, error, returned, data,
                 calls, split_vars, parser_vars, iterator_vars>>

NextResult == PushBack

SpecResult == InitResult /\ [][NextResult]_vars

(* ---------------------------------------------------------------------- *)
(* result_iterator                                                         *)
(* ---------------------------------------------------------------------- *)

\* how far past the end position an iterator is incremented
MaxPastEnd == 1

\* out_of_range{"out of bounds parser_result access", ...}
out_of_range == [kind |-> "out_of_range", option |-> <<>>]

\* what reading an entry past the end of the result may give for its
\* is_option: one value for each position up to the bound
PastEndReads == [1..MaxPastEnd -> BOOLEAN]

\* (*m_result)[index].is_option; parser_result::operator[] does not check
\* the index, so past the end of the entries the value is any
is_option_at(entries, index, past_end) ==
  IF index < Len(entries) THEN entries[index + 1].is_option
  ELSE past_end[index - Len(entries) + 1]

RECURSIVE increment(_, _, _)
\* the do-while loop of operator++ from index on: the index it ends at
increment(entries, is_option, index) ==
  IF index + 1 < Len(entries) /\ entries[index + 2].is_option # is_option
    THEN increment(entries, is_option, index + 1)
    ELSE index + 1

\* what operator-- leaves: the index and whether it has thrown
Decremented(index, thrown) == [m_index |-> index, thrown |-> thrown]

RECURSIVE decrement(_, _, _, _)
\* the do-while loop of operator-- from index on
decrement(entries, is_option, index, past_end) ==
  IF index = 0 THEN Decremented(0, TRUE)
  ELSE IF is_option_at(entries, index - 1, past_end) # is_option
    THEN decrement(entries, is_option, index - 1, past_end)
    ELSE Decremented(index - 1, FALSE)

\* the caller has an empty result to fill and to iterate over
InitIterator == InitResult

\* result_iterator it{result}, for options or for what is no option
Construct ==
  /\ pc = "result"
  /\ pc' = "iterating"
  /\ m_result' = address_of_result
  /\ \E is_option \in BOOLEAN :
       /\ IsOption' = is_option
       /\ m_index' = IF result # <<>> /\ result[1].is_option # is_option
                       THEN increment(result, is_option, 0)
                       ELSE 0
  /\ UNCHANGED <<args, ignore_first, overload, it, result, prev_type, error, returned,
                 data, calls, split_vars, parser_vars>>

\* result_iterator it{}
ConstructDefault ==
  /\ pc = "result"
  /\ pc' = "iterating"
  /\ m_result' = nullptr
  /\ m_index' = 0
  /\ IsOption' \in BOOLEAN
  /\ UNCHANGED <<args, ignore_first, overload, it, result, prev_type, error, returned,
                 data, calls, split_vars, parser_vars>>

\* ++it
Increment ==
  /\ pc = "iterating"
  /\ m_index < Len(result) + MaxPastEnd
  /\ m_index' = IF m_result # nullptr THEN increment(result, IsOption, m_index)
                                      ELSE m_index
  /\ error' = NoError
  /\ UNCHANGED <<args, ignore_first, overload, it, result, prev_type, pc, returned,
                 data, calls, split_vars, parser_vars, m_result, IsOption>>

\* --it; the caller catches what it throws and keeps the iterator
Decrement ==
  /\ pc = "iterating"
  /\ \E past_end \in PastEndReads :
       IF m_result # nullptr
         THEN /\ m_index' = decrement(result, IsOption, m_index, past_end).m_index
              /\ error' = IF decrement(result, IsOption, m_index, past_end).thrown
                            THEN out_of_range ELSE NoError
         ELSE /\ m_index' = m_index
              /\ error' = NoError
  /\ UNCHANGED <<args, ignore_first, overload, it, result, prev_type, pc, returned,
                 data, calls, split_vars, parser_vars, m_result, IsOption>>

NextIterator == PushBack \/ Construct \/ ConstructDefault \/ Increment \/ Decrement

SpecIterator == InitIterator /\ [][NextIterator]_vars

(* ---------------------------------------------------------------------- *)
(* Properties                                                              *)
(* ---------------------------------------------------------------------- *)

\* the loop is about to classify args[it] by parse_argument
Scanning == InLoop /\ ~expects_argument(Locals) /\ prev_type # "end_indicator"

\* a short option group made only of registered options without argument
flag_cluster(tok) ==
  /\ is_short_option_group(tok) /\ ~is_long_option(tok)
  /\ \A i \in (Len(m_short_option_prefix) + 1)..Len(tok) :
       /\ tok[i] # m_equals[1]
       /\ find_option_short(tok[i]) # nullptr
       /\ Deref(find_option_short(tok[i])).m_arg_name = <<>>

\* the options of a group written as one token each
separate_tokens(tok) ==
  [i \in 1..(Len(tok) - Len(m_short_option_prefix)) |->
     Append(m_short_option_prefix, tok[Len(m_short_option_prefix) + i])]

\* C1: a group of options without argument, such as -an, leaves the result
\* and the parser exactly as the same options given one per token (-a -n)
\* do: the same entries in the same order, every field equal.
C1_ClusterEqualsSeparateTokens ==
  [][(Scanning /\ flag_cluster(args[it])) =>
       LET sep == parse_loop(separate_tokens(args[it]), [Locals EXCEPT !.it = 1])
       IN /\ result' = sep.result
          /\ prev_type' = sep.prev_type
          /\ pc' = sep.pc
          /\ Len(result') = Len(result) + Len(separate_tokens(args[it]))
          /\ \A i \in (Len(result) + 1)..Len(result') : result'[i].argument = <<>>]_vars

\* a parse has returned whose first token is a group of two flags or more,
\* and the result starts with one entry for each
C1_Witness ==
  /\ pc = "returned" /\ ~ignore_first /\ Len(args) >= 1
  /\ flag_cluster(args[1]) /\ Len(args[1]) >= 3
  /\ Len(returned[1]) >= 2
  /\ returned[1][1].original_text = <<"-", args[1][2]>>
  /\ returned[1][2].original_text = <<"-", args[1][3]>>

\* C2: when an optional argument is pending and the token is the end
\* marker, a long option or a short group, the loop keeps the pending entry
\* without argument, does not advance, and the rest of the parse is the one
\* of a parser with nothing pending in front of the same token.
C2_OptionalLookaheadPushback ==
  [][(InLoop /\ prev_type = "arg_optional" /\ ~is_non_option(args[it])) =>
       /\ pc' = "loop" /\ it' = it /\ result' = result
       /\ prev_type' = "non_option"
       /\ result[Len(result)].argument = <<>>
       /\ LET rest == parse_from(args, State(it', result', prev_type', pc', error', returned', data'))
              fresh == parse_from(args, [Locals EXCEPT !.prev_type = "non_option"])
          IN /\ rest = fresh
             /\ rest.result[Len(result)] = result[Len(result)]]_vars

\* an option with an optional argument was followed by an option, and the
\* parse returned both entries, the first without argument
C2_Witness ==
  /\ pc = "returned" /\ ~ignore_first /\ Len(args) >= 2
  /\ parse_argument(args[1], <<>>, "non_option", bound_variables).type = "arg_optional"
  /\ is_long_option(args[2])
  /\ Len(returned[1]) = 2
  /\ returned[1][1].argument = <<>>
  /\ returned[1][1].original_text = args[1]
  /\ returned[1][2].is_option
  /\ returned[1][2].original_text = args[2]

back == result[Len(result)]

\* C4: a pending mandatory argument takes the next token whatever it looks
\* like: the token becomes the argument of the last entry, is appended to
\* its original_text after a space, and no error is raised.
C4_RequiredTakesAnyToken ==
  [][(InLoop /\ prev_type = "arg_required") =>
       /\ pc' = "loop" /\ error' = NoError /\ it' = it + 1
       /\ Len(result') = Len(result)
       /\ result'[Len(result)].argument = args[it]
       /\ result'[Len(result)].original_text = (back.original_text \o <<" ">>) \o args[it]]_vars

\* C5: at the end of the input a pending mandatory argument makes parse
\* throw "option 'X' requires an argument", X being the pending option as
\* written (prefix and name); this error only ever comes from a pending
\* mandatory argument, and an option written with the assignment symbol,
\* even with nothing after it, never leaves one pending.
C5_MissingArgumentAtEnd ==
  /\ (pc # "loop" /\ it > Len(args) /\ prev_type = "arg_required") =>
       /\ pc = "thrown" /\ returned = <<>>
       /\ error = parse_error("MissingArgument", back.original_without_argument)
       /\ error.option \in {Append(m_short_option_prefix, back.short_name),
                            m_long_option_prefix \o back.long_name}
  /\ error.kind = "MissingArgument" => prev_type = "arg_required"
  /\ prev_type = "arg_required" =>
       /\ result # <<>> /\ back.is_option /\ back.argument = <<>>
       /\ find(back.original_text, m_equals) = npos
  /\ \A i \in 1..Len(result) :
       find(result[i].original_without_argument, m_equals) = npos

\* the input ended after --output and parse threw for it
C5_Witness ==
  /\ pc = "thrown" /\ it > Len(args)
  /\ error = parse_error("MissingArgument", m_long_option_prefix \o back.long_name)
  /\ args[Len(args)] = error.option

\* C6: the end-of-options marker met while scanning adds no entry and
\* sets the parser past the marker for good; from then on every token, the
\* marker itself included, becomes one non-option entry with the token as
\* original_text, and parse does not throw.
C6_PastEndMarkerIsTerminal ==
  [][/\ (Scanning /\ is_end_indicator(args[it])) =>
          /\ result' = result /\ prev_type' = "end_indicator"
          /\ it' = it + 1 /\ pc' = "loop"
     /\ prev_type = "end_indicator" =>
          /\ prev_type' = "end_indicator" /\ pc' # "thrown" /\ error' = NoError
          /\ it <= Len(args) =>
               /\ result' = Append(result, [item EXCEPT !.original_text = args[it]])
               /\ it' = it + 1 /\ pc' = "loop"
          /\ it > Len(args) => pc' = "returned" /\ returned' = <<result>>]_vars

\* a parse returned in which the marker was followed by another marker and
\* by a token that is an option anywhere else
C6_Witness ==
  /\ pc = "returned" /\ prev_type = "end_indicator" /\ ~ignore_first
  /\ Len(args) = 3 /\ is_end_indicator(args[1]) /\ is_end_indicator(args[2])
  /\ is_long_option(args[3])
  /\ Len(returned[1]) = 2
  /\ returned[1][1] = [item EXCEPT !.original_text = args[2]]
  /\ returned[1][2] = [item EXCEPT !.original_text = args[3]]

\* the entries a step added to the result
added == SubSeq(result', Len(result) + 1, Len(result'))

\* C7: a step of the loop either appends entries to the result, all of
\* them made from the token under examination and, for a group, one per
\* character in the order of the characters, or (a standalone argument is
\* taken) gives the last entry its argument and extends its original_text;
\* every other entry stays as it is, and the token index never goes back.
C7_AppendOnlyInInputOrder ==
  [][/\ it' >= it
     /\ \/ /\ Len(result') >= Len(result)
           /\ SubSeq(result', 1, Len(result)) = result
           /\ \/ added = <<>>
              \/ /\ Len(added) = 1
                 /\ added[1].original_text = args[it]
              \/ /\ is_short_option_group(args[it]) /\ ~is_long_option(args[it])
                 /\ \A j \in 1..Len(added) :
                      /\ added[j].short_name = args[it][Len(m_short_option_prefix) + j]
                      /\ added[j].original_without_argument =
                           Append(m_short_option_prefix, added[j].short_name)
        \/ /\ InLoop /\ expects_argument(Locals) /\ is_non_option(args[it])
           /\ Len(result') = Len(result)
           /\ SubSeq(result', 1, Len(result) - 1) = SubSeq(result, 1, Len(result) - 1)
           /\ result'[Len(result)] =
                [back EXCEPT !.argument = args[it],
                             !.original_text = (@ \o <<" ">>) \o args[it]]]_vars

\* a parse returned three entries, the second of which took the third
\* token as its standalone argument after the first had been appended
C7_Witness ==
  /\ pc = "returned" /\ ~ignore_first /\ Len(args) = 3
  /\ Len(returned[1]) = 3
  /\ returned[1][1].original_text = args[1]
  /\ returned[1][2].is_option /\ returned[1][3].is_option
  /\ returned[1][3].argument = args[3]
  /\ returned[1][3].original_text = (Append(m_short_option_prefix, returned[1][3].short_name)
                                       \o <<" ">>) \o args[3]

\* C8: when parse throws, the caller receives no result, the token under
\* examination is the last one examined, and nothing happens afterwards;
\* a result is received only from a parse that did not throw.
C8_FailFast ==
  [][/\ pc = "loop"
     /\ pc' = "thrown" => /\ returned' = <<>> /\ error' # NoError /\ it' = it
     /\ pc' = "returned" => /\ returned' = <<result>> /\ error' = NoError
     /\ pc' = "loop" => /\ returned' = <<>> /\ error' = NoError]_vars

\* parse threw with entries already built and tokens still unread
C8_Witness ==
  /\ pc = "thrown" /\ returned = <<>> /\ Len(result) >= 1 /\ it < Len(args)

\* C10: an option without argument that is given one with the assignment
\* symbol makes parse throw "option 'X' does not accept arguments": X is
\* the token up to the symbol for a long option, and the prefix with the
\* last character for a group of options without argument.
C10_UnexpectedArgument ==
  [][(Scanning /\ find(args[it], m_equals) # npos) =>
       LET spec == substr_n(args[it], 0, find(args[it], m_equals))
           long == find_option_long(substr(spec, Len(m_long_option_prefix)))
       IN /\ (is_long_option(spec) /\ long # nullptr /\ Deref(long).m_arg_name = <<>>) =>
               /\ pc' = "thrown"
               /\ error' = parse_error("UnexpectedArgument", spec)
          /\ flag_cluster(spec) =>
               /\ pc' = "thrown"
               /\ error' = parse_error("UnexpectedArgument",
                                       Append(m_short_option_prefix, spec[Len(spec)]))]_vars

\* parse threw for -an=x and the error names -n
C10_Witness ==
  /\ pc = "thrown" /\ error.kind = "UnexpectedArgument"
  /\ it <= Len(args) /\ Len(args[it]) >= 4
  /\ error.option = <<args[it][1], args[it][3]>>
  /\ args[it][4] = m_equals[1]

\* tok is the short prefix, one option that takes an argument, and a
\* non-empty text that starts neither with the assignment symbol nor with
\* the short prefix
attached_form(tok) ==
  /\ Len(tok) >= Len(m_short_option_prefix) + 2
  /\ is_short_option_group(tok) /\ ~is_long_option(tok)
  /\ find_option_short(tok[Len(m_short_option_prefix) + 1]) # nullptr
  /\ Deref(find_option_short(tok[Len(m_short_option_prefix) + 1])).m_arg_name # <<>>
  /\ ~is_substr_at_pos(tok, m_equals, Len(m_short_option_prefix) + 1)
  /\ ~is_substr_at_pos(tok, m_short_option_prefix, Len(m_short_option_prefix) + 1)

specifier(tok) ==
  IF find(tok, m_equals) # npos THEN substr_n(tok, 0, find(tok, m_equals)) ELSE tok

\* the characters of the group from the first up to position k (1-based in
\* short_names) all name options that take no argument
flags_before(short_names, k) ==
  \A j \in 1..(k - 1) :
    /\ find_option_short(short_names[j]) # nullptr
    /\ Deref(find_option_short(short_names[j])).m_arg_name = <<>>

\* C11: a long option whose name is not registered makes parse throw
\* InvalidOption carrying the whole --name, and a short option group with a
\* character that is not registered, reached before any option of the group
\* that takes an argument, makes it throw InvalidOption carrying the short
\* prefix and that character.
C11_InvalidOption ==
  [][Scanning =>
       LET spec == specifier(args[it])
           short_names == substr(spec, Len(m_short_option_prefix))
       IN
       /\ (is_long_option(spec)
             /\ find_option_long(substr(spec, Len(m_long_option_prefix))) = nullptr)
            => /\ pc' = "thrown"
               /\ error' = parse_error("InvalidOption", spec)
       /\ (/\ ~is_long_option(spec)
           /\ is_short_option_group(spec)
           /\ spec # m_long_option_prefix)
            => \A k \in 1..Len(short_names) :
                 (find_option_short(short_names[k]) = nullptr
                    /\ flags_before(short_names, k))
                 => /\ pc' = "thrown"
                    /\ error' = parse_error("InvalidOption",
                                            Append(m_short_option_prefix,
                                                   short_names[k]))]_vars

\* parse has thrown InvalidOption for q, the third option of the group -anq
C11_Witness ==
  /\ pc = "thrown"
  /\ it <= Len(args)
  /\ args[it] = <<"-", "a", "n", "q">>
  /\ error = parse_error("InvalidOption", <<"-", "q">>)

\* C12: a token whose text in front of its first assignment symbol is
\* exactly the short or the long prefix makes parse throw InvalidOption
\* carrying that prefix and the assignment symbol, whatever follows it.
C12_BarePrefixAssignment ==
  [][(/\ Scanning
      /\ find(args[it], m_equals) # npos
      /\ specifier(args[it]) \in {m_short_option_prefix, m_long_option_prefix})
       => /\ pc' = "thrown"
          /\ error' = parse_error("InvalidOption",
                                  specifier(args[it]) \o m_equals)]_vars

\* parse has thrown InvalidOption carrying --= for the token --=x
C12_Witness ==
  /\ pc = "thrown"
  /\ it <= Len(args)
  /\ args[it] = <<"-", "-", "=", "x">>
  /\ error = parse_error("InvalidOption", <<"-", "-", "=">>)

\* the option and the text that the step about to be taken hands to
\* write_option_argument: a standalone argument for the pending option, or
\* what follows the assignment symbol of a long option or of a lone short
\* option that takes an argument; opt is nullptr if there is none
binding ==
  IF InLoop /\ expects_argument(Locals) /\ is_non_option(args[it])
    THEN [opt |-> back.opt_info, text |-> args[it],
          name |-> back.original_without_argument]
  ELSE IF Scanning /\ find(args[it], m_equals) # npos
    THEN LET spec == specifier(args[it])
             opt == IF is_long_option(spec)
                      THEN find_option_long(substr(spec, Len(m_long_option_prefix)))
                    ELSE IF Len(spec) = Len(m_short_option_prefix) + 1
                            /\ is_short_option_group(spec)
                      THEN find_option_short(spec[Len(spec)])
                    ELSE nullptr
         IN IF opt # nullptr /\ Deref(opt).m_arg_name # <<>>
              THEN [opt |-> opt,
                    text |-> substr(args[it], find(args[it], m_equals) + Len(m_equals)),
                    name |-> spec]
              ELSE [opt |-> nullptr, text |-> <<>>, name |-> <<>>]
  ELSE [opt |-> nullptr, text |-> <<>>, name |-> <<>>]

\* a sign, if any, and then digits only, one at least
is_numeral(text) ==
  LET digits == IF text # <<>> /\ text[1] \in {"+", "-"} THEN Tail(text) ELSE text
  IN digits # <<>> /\ \A i \in 1..Len(digits) : isdigit(digits[i])

\* the integer a numeral denotes
numeral_value(text) ==
  IF text[1] \in {"+", "-"} THEN integer(text[1] = "-", Tail(text))
                            ELSE integer(FALSE, text)

\* text without the spaces in front of it
without_leading_space(text) ==
  LET k == CHOOSE k \in 0..Len(text) :
             /\ \A i \in 1..k : isspace(text[i])
             /\ k < Len(text) => ~isspace(text[k + 1])
  IN SubSeq(text, k + 1, Len(text))

\* text without the spaces in front of it and behind it
without_surrounding_space(text) ==
  LET front == without_leading_space(text)
      k == CHOOSE k \in 0..Len(front) :
             /\ \A i \in (k + 1)..Len(front) : isspace(front[i])
             /\ k > 0 => ~isspace(front[k])
  IN SubSeq(front, 1, k)

\* the messages of the two kinds of error of a bound numeric variable
TypeMismatch == {"MustBeInteger", "MustBeNumber"}
RangeError == {"MustNotBeNegative", "OutOfRange"}

\* 2^32 - 1, the upper end of the range of an unsigned target
two_to_32_minus_1 == integer(FALSE, <<"4", "2", "9", "4", "9", "6", "7", "2", "9", "5">>)

\* C13: for an option bound to an unsigned variable, an argument that is a
\* negative integer makes parse throw a range error, "must not be negative"
\* if the integer fits long long; one above the largest unsigned makes it
\* throw "is out of range"; one that starts with no integer at all makes it
\* throw "must be an integer"; and an integer from 0 to 2^32-1 is written
\* to the variable with its value, and parse goes on.
C13_UnsignedTarget ==
  [][(binding.opt # nullptr /\ Deref(binding.opt).m_arg_type = "uint_arg") =>
       LET text == without_leading_space(binding.text)
           value == numeral_value(text)
           no_integer == \A n \in 1..Len(text) : ~is_numeral(SubSeq(text, 1, n))
       IN
       /\ (is_numeral(text) /\ less(value, zero)) =>
            /\ pc' = "thrown"
            /\ error'.kind \in RangeError
            /\ error'.option = binding.name
            /\ ~less(value, LLONG_MIN) => error'.kind = "MustNotBeNegative"
       /\ (is_numeral(text) /\ less(two_to_32_minus_1, value)) =>
            /\ pc' = "thrown"
            /\ error' = parse_error("OutOfRange", binding.name)
       /\ no_integer =>
            /\ pc' = "thrown"
            /\ error' = parse_error("MustBeInteger", binding.name)
       /\ (is_numeral(text) /\ ~less(value, zero)
             /\ ~less(two_to_32_minus_1, value)) =>
            /\ pc' = "loop"
            /\ error' = NoError
            /\ data'[Deref(binding.opt).m_bound_variable] = value]_vars

\* 4294967295, the largest unsigned, has been written to the variable of
\* --indent
C13_Witness ==
  /\ pc = "returned"
  /\ data.indent = two_to_32_minus_1
  /\ \E i \in 1..Len(result) : result[i].argument = two_to_32_minus_1.mag

\* a sign, if any, and then digits with at most one point among them, one
\* digit at least
is_mantissa(text) ==
  LET body == IF text # <<>> /\ text[1] \in {"+", "-"} THEN Tail(text) ELSE text
  IN /\ \A i \in 1..Len(body) : isdigit(body[i]) \/ body[i] = "."
     /\ \E i \in 1..Len(body) : isdigit(body[i])
     /\ \A i, j \in 1..Len(body) : (body[i] = "." /\ body[j] = ".") => i = j

\* a decimal number: a mantissa and, if any, an exponent
is_decimal(text) ==
  \E m \in 1..Len(text) :
    /\ is_mantissa(SubSeq(text, 1, m))
    /\ \/ m = Len(text)
       \/ /\ text[m + 1] \in {"e", "E"}
          /\ is_numeral(SubSeq(text, m + 2, Len(text)))

starts_out_of_range(text, min, max) ==
  \E n \in 1..Len(text) :
    /\ is_numeral(SubSeq(text, 1, n))
    /\ n < Len(text) => ~isdigit(text[n + 1])
    /\ \/ less(numeral_value(SubSeq(text, 1, n)), min)
       \/ less(max, numeral_value(SubSeq(text, 1, n)))

flag_of(entry) ==
  IF entry.is_option THEN Deref(entry.opt_info).m_is_option_set ELSE no_variable

\* C15: the flag bound to an option is true as soon as the entry of the
\* option is in the result, whether or not an argument has been attached:
\* also while parse waits for the standalone argument, and for an option
\* that ends up without argument.
C15_FlagSetWhenEmitted ==
  \A i \in 1..Len(result) :
    flag_of(result[i]) # no_variable => data[flag_of(result[i])] = TRUE

\* --output has been emitted, its flag is set and parse waits for its
\* mandatory argument
C15_Witness ==
  /\ pc = "loop"
  /\ prev_type = "arg_required"
  /\ back.argument = <<>>
  /\ flag_of(back) = "has_file"
  /\ data.has_file = TRUE

\* the option opt has an entry in the result
encountered(opt) == \E i \in 1..Len(result) : result[i].opt_info = opt

\* C16: when a call of parse has returned, the flag bound to an option is
\* true if the command line of that call had the option and false if it
\* had not, in every call of a sequence of calls on one parser.
C16_FlagIffEncountered ==
  pc = "returned" =>
    \A opt \in all_options :
      Deref(opt).m_is_option_set # no_variable =>
        data[Deref(opt).m_is_option_set] = encountered(opt)

\* split is about to look at the character str[pos]
Splitting == pc = "split" /\ split_locals.pos < Len(str)

\* the character split is about to look at
cur_char == str[split_locals.pos + 1]

\* the character is one of the delimiters, one of the quote characters
is_delimiter(ch) == \E i \in 1..Len(delims) : delims[i] = ch
is_quote(ch) == \E i \in 1..Len(quotes) : quotes[i] = ch

\* C17: outside quotes a delimiter that is not escaped ends the token and is
\* not copied; the token is written to dest unless it is empty and
\* allow_empty is false, so that no run of delimiters and no delimiter at
\* the start or the end of the text yields an empty token then; dest only
\* grows at its end, by the token just ended.
C17_DelimiterEndsToken ==
  [][/\ (Splitting /\ ~split_locals.in_quotes /\ ~split_locals.escape_next
          /\ is_delimiter(cur_char)) =>
          /\ split_locals'.cur_token = <<>>
          /\ dest' = IF split_locals.cur_token = <<>> /\ ~allow_empty
                       THEN dest
                       ELSE Append(dest, split_locals.cur_token)
     /\ dest' = dest \/ dest' = Append(dest, split_locals.cur_token)
     /\ ~allow_empty => \A i \in 1..Len(dest') : dest'[i] # <<>>]_vars

\* the text " a  a", which starts with a delimiter and has a run of them,
\* has been split into two tokens without allow_empty
C17_Witness ==
  /\ pc = "split_done"
  /\ ~allow_empty
  /\ str = <<" ", "a", " ", " ", "a">>
  /\ dest = << <<"a">>, <<"a">> >>

\* C18: an escape character that is not escaped itself is dropped, inside
\* and outside quotes, and the character after it is appended to the token
\* whatever it is: it ends no token and opens or closes no quoted span.
C18_EscapeMakesLiteral ==
  [][/\ (Splitting /\ ~split_locals.escape_next /\ cur_char = escape_char) =>
          /\ split_locals'.escape_next
          /\ split_locals'.cur_token = split_locals.cur_token
          /\ split_locals'.in_quotes = split_locals.in_quotes
          /\ dest' = dest
     /\ (Splitting /\ split_locals.escape_next) =>
          /\ ~split_locals'.escape_next
          /\ split_locals'.cur_token = Append(split_locals.cur_token, cur_char)
          /\ split_locals'.in_quotes = split_locals.in_quotes
          /\ dest' = dest]_vars

\* inside quotes an escaped quote character and an escaped escape character
\* have become part of the token
C18_Witness ==
  /\ pc = "split_done"
  /\ str = <<"\"", "\\", "\"", "\\", "\\">>
  /\ dest = << <<"\"", "\\">> >>

\* C19: outside quotes a quote character that is not escaped opens a quoted
\* span; inside the span the same quote character, not escaped, closes it;
\* neither is copied nor ends the token; every other character inside the
\* span that is not an escape is copied, delimiters and the other quote
\* character included.
C19_QuotedSpan ==
  [][/\ (Splitting /\ ~split_locals.in_quotes /\ ~split_locals.escape_next
          /\ is_quote(cur_char)) =>
          /\ split_locals'.in_quotes
          /\ quotes[split_locals'.quote_index + 1] = cur_char
          /\ split_locals'.cur_token = split_locals.cur_token
          /\ dest' = dest
     /\ (Splitting /\ split_locals.in_quotes /\ ~split_locals.escape_next
          /\ cur_char # escape_char) =>
          /\ quotes[split_locals'.quote_index + 1] = quotes[split_locals.quote_index + 1]
          /\ dest' = dest
          /\ IF cur_char = quotes[split_locals.quote_index + 1]
               THEN /\ ~split_locals'.in_quotes
                    /\ split_locals'.cur_token = split_locals.cur_token
               ELSE /\ split_locals'.in_quotes
                    /\ split_locals'.cur_token =
                         Append(split_locals.cur_token, cur_char)]_vars

\* "' "a is one token: the span holds the other quote character and a
\* delimiter, and the text after it belongs to the same token
C19_Witness ==
  /\ pc = "split_done"
  /\ str = <<"\"", "'", " ", "\"", "a">>
  /\ dest = << <<"'", " ", "a">> >>

\* the text has an empty quoted span that stands alone between delimiters
\* or the ends of the text, and apart from it plain characters and spaces
has_empty_quoted_component ==
  \E i \in 1..(Len(str) - 1) :
    /\ is_quote(str[i]) /\ str[i + 1] = str[i]
    /\ i > 1 => str[i - 1] = " "
    /\ i + 1 < Len(str) => str[i + 2] = " "
    /\ \A j \in 1..Len(str) : j \notin {i, i + 1} => str[j] \in {"a", " "}

\* C20: without allow_empty an empty component is skipped unless it is
\* enclosed in quotes: an empty quoted span that stands alone between
\* delimiters yields an empty token.
C20_EmptyQuotedTokenKept ==
  (pc = "split_done" /\ ~allow_empty /\ has_empty_quoted_component) =>
    \E k \in 1..Len(dest) : dest[k] = <<>>

\* the text is plain characters and spaces up to position i, where a quote
\* character stands that does not occur again, and no escape character
\* comes after it: the quote at i is never closed
unclosed_quote_at(i) ==
  /\ i \in 1..Len(str)
  /\ is_quote(str[i])
  /\ \A j \in 1..(i - 1) : str[j] \in {"a", " "}
  /\ \A j \in (i + 1)..Len(str) : str[j] # str[i] /\ str[j] # escape_char

\* where the token starts that the quote at i belongs to: after the last
\* delimiter before i
token_start(i) ==
  CHOOSE k \in 1..i : /\ \A j \in k..(i - 1) : str[j] # " "
                      /\ k > 1 => str[k - 1] = " "

\* the token of the quoted span opened at i and never closed: what stands
\* before the quote in the same token, and the whole rest of the text
open_span_token(i) ==
  SubSeq(str, token_start(i), i - 1) \o SubSeq(str, i + 1, Len(str))

\* split never reads quotes[quote_index] or str[pos] outside the string,
\* the only operations of split that could fail
split_reads_in_range ==
  /\ split_locals.pos \in 0..Len(str)
  /\ split_locals.in_quotes => split_locals.quote_index \in 0..(Len(quotes) - 1)

\* every iteration of the loop consumes exactly one character, and the loop
\* is left when all of them are consumed
one_step_per_character ==
  /\ (pc = "split" /\ pc' = "split") => split_locals'.pos = split_locals.pos + 1
  /\ pc' = "split_done" => split_locals'.pos = Len(str)
  /\ pc = "split_done" => pc' = "split_done"

registration(opt) == CHOOSE k \in 1..Len(registered) : registered[k] = opt

\* the options that bear the name an entry was written with: the long name
\* if the token was a long option, the short name otherwise
namesakes(entry) ==
  IF is_long_option(entry.original_without_argument)
    THEN {q \in all_options : Deref(q).m_long_name = entry.long_name}
    ELSE {q \in all_options : Deref(q).m_short_name = entry.short_name}

\* when the group was created: with the first option added to it
creation(g) ==
  CHOOSE k \in 1..Len(registered) :
    registered[k][1] = g /\ \A j \in 1..(k - 1) : registered[j][1] # g

\* p comes before q in the table: its group was created earlier, or they
\* are in one group and p was added earlier
before_in_table(p, q) ==
  \/ creation(p[1]) < creation(q[1])
  \/ p[1] = q[1] /\ registration(p) <= registration(q)

\* the long and short names that are looked up
LookupLongNames == { <<"x">>, <<"y">>, <<"z">> }
LookupShortNames == { "x", "y", "z" }

QueryLongNames ==
  { <<"v","e","r","s","i","o","n">>, <<"h","e","l","p">>, <<"f","i","l","e">>,
    <<"c","o","m","m","a","n","d">>, <<"v","e","r","b","o","s","e">>, <<>> }
QueryShortNames == { "?", "f", "v", NUL }

\* the indices of the entries that are options with the long name, with
\* the short name
options_long(long_name) ==
  {k \in 1..Len(result) : result[k].is_option /\ result[k].long_name = long_name}
options_short(short_name) ==
  {k \in 1..Len(result) : result[k].is_option /\ result[k].short_name = short_name}

\* the greatest of a non-empty set of indices
last_of(S) == CHOOSE k \in S : \A j \in S : j <= k

current_strings ==
  Strings(m_delims, m_short_option_prefix, m_long_option_prefix,
          m_end_of_options, m_equals)

\* the fields of Strings, in the order of the parameters
Symbols ==
  <<"m_delims", "m_short_option_prefix", "m_long_option_prefix",
    "m_end_of_options", "m_equals">>

\* C24: set_custom_strings clears no symbol: none of the five strings is
\* ever empty, a blank parameter leaves its symbol as it was and a
\* parameter that is not blank becomes the value of its own symbol and of
\* no other.
C24_BlankKeepsSymbol ==
  /\ \A k \in 1..5 : current_strings[Symbols[k]] # <<>>
  /\ \A custom_delims \in CustomDelims, short_prefix \in CustomShortPrefixes,
        long_prefix \in CustomLongPrefixes, end_indicator \in CustomEndIndicators,
        equals \in CustomEquals :
       LET given == <<custom_delims, short_prefix, long_prefix, end_indicator, equals>>
           after == set_custom_strings(custom_delims, short_prefix, long_prefix,
                                       end_indicator, equals)
       IN \A k \in 1..5 :
            after[Symbols[k]] = IF given[k] = <<>>
                                  THEN current_strings[Symbols[k]]
                                  ELSE given[k]

\* after set_custom_strings with the strings of the test and then with
\* another short prefix and blanks: only the short prefix is replaced, the
\* other custom strings are kept
C24_Witness ==
  /\ pc = "configure"
  /\ m_delims = <<".">>
  /\ m_short_option_prefix = <<"-", "-">>
  /\ m_long_option_prefix = <<":", ":", ":">>
  /\ m_end_of_options = <<"+", "+", "+">>
  /\ m_equals = <<"-", ">">>

\* parse has ended, by return or by exception
Ended == pc \in {"returned", "thrown"}

\* the locals of parse as they are on the command line without its first
\* token
locals_on_rest == [Locals EXCEPT !.it = @ - 1]

\* the step that enters the loop of parse
enters_loop == pc # "loop" /\ pc' = "loop"

\* C25: with ignore_first true and a command line that is not empty the
\* first token is dropped unexamined: parse starts as, and every step of it
\* is, what parse does on the rest of the line with ignore_first false, so
\* that it ends with the same entries or the same error whatever the first
\* token is; on an empty line parse returns the empty result; with
\* ignore_first false the first token is the first to be examined.
\* ignore_first is true when it is not given to the overloads for a range
\* and for argc and argv, false when it is not given to the overload for a
\* string.
C25_IgnoreFirst ==
  /\ [][/\ (enters_loop /\ ignore_first' /\ args' # <<>>) =>
             locals_on_rest' =
               State(1, <<>>, "non_option", "loop", NoError, <<>>, data)
        /\ (pc = "loop" /\ ignore_first /\ args # <<>>) =>
             locals_on_rest' = parse_step(Tail(args), locals_on_rest)
        /\ (enters_loop /\ ~(ignore_first' /\ args' # <<>>)) =>
             Locals' = State(1, <<>>, "non_option", "loop", NoError, <<>>, data)
        /\ (pc = "loop" /\ ~ignore_first) => Locals' = parse_step(args, Locals)]_vars
  /\ []((Ended /\ args = <<>>) =>
          pc = "returned" /\ returned = << <<>> >> /\ data = bound_variables)
  /\ [](overload \in {"range_default", "argv_default"} => ignore_first)
  /\ [](overload = "string_default" => ~ignore_first)

\* parse(argc, argv) has returned for the line  --no -n : the first token,
\* an option that is not registered, raised no error and left no entry
C25_Witness ==
  /\ pc = "returned"
  /\ overload = "argv_default"
  /\ args = << <<"-", "-", "n", "o">>, <<"-", "n">> >>
  /\ Len(returned[1]) = 1
  /\ returned[1][1].short_name = "n"

\* the entry bears a name of an option of the table
names_registered_option(entry) ==
  \E q \in all_options :
    \/ entry.long_name # <<>> /\ Deref(q).m_long_name = entry.long_name
    \/ entry.short_name # NUL /\ Deref(q).m_short_name = entry.short_name

\* C26: in a result that parse returns every entry that is no option has
\* an empty long name, the null short name and an empty argument, and every
\* entry that is an option has a long name or a short name of an option of
\* the table.
C26_EntryInvariant ==
  pc = "returned" =>
    \A k \in 1..Len(returned[1]) :
      IF returned[1][k].is_option
        THEN names_registered_option(returned[1][k])
        ELSE /\ returned[1][k].long_name = <<>>
             /\ returned[1][k].short_name = NUL
             /\ returned[1][k].argument = <<>>

\* parse has returned for  -a -- --all : an option entry, and after the
\* end marker an entry that is no option although its text is that of one
C26_Witness ==
  /\ pc = "returned" /\ ~ignore_first /\ Len(args) = 3
  /\ args[1] = <<"-", "a">> /\ args[2] = <<"-", "-">>
  /\ args[3] = <<"-", "-", "a", "l", "l">>
  /\ Len(returned[1]) = 2
  /\ returned[1][1].is_option /\ returned[1][1].long_name = <<"a", "l", "l">>
  /\ ~returned[1][2].is_option /\ returned[1][2].original_text = args[3]

\* the last entry of the result
pending == result[Len(result)]

\* the last entry with the token as its argument
pending_with(arg) ==
  [pending EXCEPT !.argument = arg, !.original_text = (@ \o <<" ">>) \o arg]

\* what the Binder does with the token as the argument of the last entry
bound_with(arg) == write_option_argument(pending.opt_info, pending_with(arg), data)

\* C27: when an option waits for a standalone argument and the token is
\* not the end marker, a long option or a short group (the lone short
\* prefix is none of them), the token as a whole becomes the argument of
\* the last entry, whose original_text becomes the old text, a space and
\* the token; the Binder is called with it: a bound string variable holds
\* the token afterwards; no entry is added and the next token is looked at
\* with nothing pending, unless the Binder rejects the argument, which ends
\* parse with its error.
C27_StandaloneArgumentConsumed ==
  [][(InLoop /\ prev_type \in {"arg_required", "arg_optional"}
        /\ args[it] # m_end_of_options /\ ~is_long_option(args[it])
        /\ ~is_short_option_group(args[it])) =>
       /\ pending.is_option /\ pending.argument = <<>>
       /\ data' = bound_with(args[it]).data
       /\ (Deref(pending.opt_info).m_arg_type = "string_arg"
             /\ Deref(pending.opt_info).m_bound_variable # no_variable) =>
            data'[Deref(pending.opt_info).m_bound_variable] = args[it]
       /\ IF bound_with(args[it]).error = NoError
            THEN /\ pc' = "loop" /\ it' = it + 1
                 /\ prev_type' = "non_option"
                 /\ Len(result') = Len(result)
                 /\ \A k \in 1..(Len(result) - 1) : result'[k] = result[k]
                 /\ result'[Len(result)] = pending_with(args[it])
                 /\ result'[Len(result)].argument = args[it]
                 /\ result'[Len(result)].original_text =
                      (pending.original_text \o <<" ">>) \o args[it]
            ELSE /\ pc' = "thrown"
                 /\ error' = bound_with(args[it]).error
                 /\ returned' = <<>>]_vars

\* parse has returned for  -o - x : the lone short prefix became the
\* argument of -o and the bound string, and x was parsed with nothing
\* pending
C27_Witness ==
  /\ pc = "returned" /\ ~ignore_first /\ Len(args) = 3
  /\ args[1] = <<"-", "o">> /\ args[2] = <<"-">> /\ args[3] = <<"x">>
  /\ Len(returned[1]) = 2
  /\ returned[1][1].argument = <<"-">>
  /\ returned[1][1].original_text = <<"-", "o", " ", "-">>
  /\ data["file"] = <<"-">>
  /\ ~returned[1][2].is_option

\* the names of a short option group written in front of an assignment
\* symbol
group_names(tok) == substr(specifier(tok), Len(m_short_option_prefix))

\* the token is a long option that takes an argument, followed by the
\* assignment symbol
assigned_long(tok) ==
  /\ find(tok, m_equals) # npos
  /\ is_long_option(specifier(tok))
  /\ find_option_long(substr(specifier(tok), Len(m_long_option_prefix))) # nullptr
  /\ Deref(find_option_long(substr(specifier(tok),
                                   Len(m_long_option_prefix)))).m_arg_name # <<>>

\* the token is a short option that takes an argument, alone or after
\* options that take none, followed by the assignment symbol
assigned_short(tok) ==
  /\ find(tok, m_equals) # npos
  /\ ~is_long_option(specifier(tok))
  /\ is_short_option_group(specifier(tok))
  /\ flags_before(group_names(tok), Len(group_names(tok)))
  /\ find_option_short(group_names(tok)[Len(group_names(tok))]) # nullptr
  /\ Deref(find_option_short(
             group_names(tok)[Len(group_names(tok))])).m_arg_name # <<>>

\* the option of such a token
assigned_option(tok) ==
  IF assigned_long(tok)
    THEN find_option_long(substr(specifier(tok), Len(m_long_option_prefix)))
    ELSE find_option_short(group_names(tok)[Len(group_names(tok))])

\* the text after the first assignment symbol of the token
text_after_symbol(tok) == substr(tok, find(tok, m_equals) + Len(m_equals))

\* C28: an option that takes an argument and is written with the
\* assignment symbol gets the text after the symbol as its argument, be it
\* empty or the text of an option, and nothing is pending after it: the
\* next token is classified on its own and no later step changes the
\* entry.  parse ends with an error instead only if the option is bound to
\* a numeric variable and the Binder rejects the text.
C28_AssignedArgument ==
  [][/\ (Scanning /\ (assigned_long(args[it]) \/ assigned_short(args[it]))) =>
          IF pc' = "thrown"
            THEN /\ error'.kind \in TypeMismatch \cup RangeError
                 /\ Deref(assigned_option(args[it])).m_bound_variable # no_variable
                 /\ Deref(assigned_option(args[it])).m_arg_type # "string_arg"
            ELSE /\ pc' = "loop" /\ it' = it + 1
                 /\ prev_type' = "no_arg"
                 /\ Len(result') = Len(result) +
                      (IF assigned_long(args[it]) THEN 1
                                                  ELSE Len(group_names(args[it])))
                 /\ result'[Len(result')].is_option
                 /\ result'[Len(result')].opt_info = assigned_option(args[it])
                 /\ result'[Len(result')].argument = text_after_symbol(args[it])
                 /\ result'[Len(result')].original_text =
                      IF assigned_long(args[it]) THEN args[it]
                      ELSE (m_short_option_prefix
                              \o <<group_names(args[it])[Len(group_names(args[it]))]>>)
                             \o (m_equals \o text_after_symbol(args[it]))
                 /\ (Deref(assigned_option(args[it])).m_arg_type = "string_arg"
                       /\ Deref(assigned_option(args[it])).m_bound_variable
                            # no_variable) =>
                      data'[Deref(assigned_option(args[it])).m_bound_variable] =
                        text_after_symbol(args[it])
     /\ (pc = "loop" /\ prev_type = "no_arg" /\ pc' = "loop") =>
          /\ Len(result') >= Len(result)
          /\ \A k \in 1..Len(result) : result'[k] = result[k]]_vars

\* parse has returned for  --output= x : the argument of --output is
\* empty and x is an entry of its own
C28_Witness ==
  /\ pc = "returned" /\ Len(args) = 2
  /\ args[1] = <<"-", "-", "o", "u", "t", "p", "u", "t", "=">>
  /\ args[2] = <<"x">>
  /\ Len(returned[1]) = 2
  /\ returned[1][1].is_option /\ returned[1][1].argument = <<>>
  /\ returned[1][1].original_text = args[1]
  /\ ~returned[1][2].is_option /\ returned[1][2].original_text = <<"x">>

\* the characters of a short option group, with the assignment symbol and
\* what follows it if there is any
cluster(tok) == substr(tok, Len(m_short_option_prefix))

\* the token is a short option group whose k-th character is the first to
\* name an option that takes an argument, the characters before it name
\* options, and more characters follow
argument_starts_after(tok, k) ==
  /\ is_short_option_group(specifier(tok)) /\ ~is_long_option(specifier(tok))
  /\ k \in 1..(Len(group_names(tok)) - 1)
  /\ flags_before(group_names(tok), k)
  /\ find_option_short(group_names(tok)[k]) # nullptr
  /\ Deref(find_option_short(group_names(tok)[k])).m_arg_name # <<>>

\* the presence flags of the first k options of the group
flags_upto(tok, k) ==
  {Deref(find_option_short(group_names(tok)[j])).m_is_option_set : j \in 1..k}

\* the boolean variables that are bound as presence flags
PresenceFlags ==
  {Deref(q).m_is_option_set : q \in all_options} \ {no_variable}

\* C29: in a short option group the first character that names an option
\* that takes an argument ends the options of the token: the characters
\* after it are the argument of that option, whether they name options or
\* not; no entry is made for them, no presence flag is set for them and
\* they raise no InvalidOption.  parse ends with an error instead only if
\* the option is bound to a numeric variable and the Binder rejects the
\* text.
C29_ArgumentEndsCluster ==
  [][\A k \in 1..3 :
       (Scanning /\ argument_starts_after(args[it], k)) =>
         IF pc' = "thrown"
           THEN /\ error'.kind \in TypeMismatch \cup RangeError
                /\ Deref(find_option_short(
                           group_names(args[it])[k])).m_arg_type # "string_arg"
           ELSE /\ pc' = "loop" /\ it' = it + 1 /\ prev_type' = "no_arg"
                /\ Len(result') = Len(result) + k
                /\ \A j \in 1..k :
                     /\ result'[Len(result) + j].is_option
                     /\ result'[Len(result) + j].short_name =
                          group_names(args[it])[j]
                     /\ j < k => result'[Len(result) + j].argument = <<>>
                /\ result'[Len(result) + k].argument = substr(cluster(args[it]), k)
                /\ \A v \in PresenceFlags :
                     data'[v] = (data[v] \/ v \in flags_upto(args[it], k))
                /\ (Deref(find_option_short(
                            group_names(args[it])[k])).m_arg_type = "string_arg"
                      /\ Deref(find_option_short(group_names(args[it])[k])).
                           m_bound_variable # no_variable) =>
                     data'[Deref(find_option_short(group_names(args[it])[k])).
                             m_bound_variable] = substr(cluster(args[it]), k)]_vars

\* parse has returned for  -foqv : entries for f and o only, the argument
\* of o is qv, where q names no option and v names one; the flag of f is
\* set and that of v is not
C29_Witness ==
  /\ pc = "returned" /\ Len(args) = 1
  /\ args[1] = <<"-", "f", "o", "q", "v">>
  /\ Len(returned[1]) = 2
  /\ returned[1][2].short_name = "o"
  /\ returned[1][2].argument = <<"q", "v">>
  /\ data["force"] /\ ~data["verbose"]
  /\ data["file"] = <<"q", "v">>

\* the token starts with the long prefix and is longer than it
long_token(tok) ==
  /\ Len(tok) > Len(m_long_option_prefix)
  /\ SubSeq(tok, 1, Len(m_long_option_prefix)) = m_long_option_prefix

\* the token starts with the short prefix, is longer than it and is no
\* long token
short_token(tok) ==
  /\ ~long_token(tok)
  /\ Len(tok) > Len(m_short_option_prefix)
  /\ SubSeq(tok, 1, Len(m_short_option_prefix)) = m_short_option_prefix

\* the name of a long token: the text between the prefix and the
\* assignment symbol
name_of(tok) == substr(specifier(tok), Len(m_long_option_prefix))

\* the step looks the token up as a long name, and only so: no name, or a
\* name that no option has, is an InvalidOption; the entry made is that of
\* the option of that long name
taken_as_long(tok) ==
  IF name_of(tok) = <<>> \/ find_option_long(name_of(tok)) = nullptr
    THEN pc' = "thrown" /\ error'.kind = "InvalidOption"
    ELSE \/ pc' = "thrown" /\ error'.kind # "InvalidOption"
         \/ /\ pc' = "loop" /\ Len(result') = Len(result) + 1
            /\ result'[Len(result')].is_option
            /\ result'[Len(result')].long_name = name_of(tok)
            /\ result'[Len(result')].opt_info = find_option_long(name_of(tok))

\* the step looks the characters of the token up as short names, the
\* first one first
taken_as_short(tok) ==
  IF group_names(tok) = <<>> \/ find_option_short(group_names(tok)[1]) = nullptr
    THEN pc' = "thrown" /\ error'.kind = "InvalidOption"
    ELSE \/ pc' = "thrown"
         \/ /\ pc' = "loop" /\ Len(result') > Len(result)
            /\ result'[Len(result) + 1].is_option
            /\ result'[Len(result) + 1].short_name = group_names(tok)[1]
            /\ result'[Len(result) + 1].opt_info =
                 find_option_short(group_names(tok)[1])

\* the step makes one entry that is no option, with the token as its text
taken_as_non_option(tok) ==
  /\ pc' = "loop" /\ prev_type' = "non_option" /\ data' = data
  /\ result' = Append(result, [item EXCEPT !.original_text = tok])

\* the token is looked at while no argument is pending and before the end
\* marker, and is not the end marker
classified(tok) == Scanning /\ tok = args[it] /\ ~is_end_indicator(tok)

C30_WitnessLonePrefix ==
  /\ pc = "returned" /\ Len(args) = 1
  /\ args[1] = <<":", ":", ":">> /\ args[1] = m_long_option_prefix
  /\ m_end_of_options # args[1]
  /\ Len(returned[1]) = 1 /\ ~returned[1][1].is_option
  /\ returned[1][1].original_text = args[1]

\* a token that starts with both prefixes has been looked up as a long
\* name only:  --n  with the short prefix  -- , where n is a short name
\* and no long name
C30_WitnessBothPrefixes ==
  /\ pc = "thrown" /\ error.kind = "InvalidOption"
  /\ m_short_option_prefix = m_long_option_prefix
  /\ Len(args) = 1 /\ args[1] = m_short_option_prefix \o <<"n">>
  /\ find_option_short("n") # nullptr

\* the step leaves the loop: parse returns or throws
leaves_loop == pc = "loop" /\ pc' # "loop"

\* the step looks at the token again that it was given: the index and the
\* entries stay, only the pending argument is given up
pushed_back ==
  /\ it' = it /\ pc' = "loop"
  /\ result' = result /\ data' = data
  /\ prev_type' = "non_option"

\* C31: parse ends in one pass.  The index never moves backwards; a step
\* of the loop moves it to the next token or ends parse, except the step on
\* a token that is no argument for the pending optional argument: that
\* step keeps the index and the entries and gives up the pending argument,
\* so that the step after it, on the same token, moves on or ends parse.
\* No token is looked at more than twice, and parse ends.
C31_OnePass ==
  /\ [][/\ it' >= it
        /\ pc # "loop" => UNCHANGED <<it, result, prev_type, pc, returned, error>>
        /\ (~leaves_loop /\ it' = it) =>
             /\ prev_type = "arg_optional" /\ ~is_non_option(args[it])
             /\ pushed_back
        /\ (pc = "loop" /\ ~expects_argument(Locals)) =>
             (leaves_loop \/ it' = it + 1)
        /\ (pc = "loop" /\ it' # it) => (it' = it + 1 /\ it <= Len(args))]_vars
  /\ [](it <= Len(args) + 1)
  /\ <>(pc # "loop")

\* --color -a : the token -a was no argument for --color and is about to
\* be looked at again, nothing pending
C31_Witness ==
  /\ pc = "loop" /\ it = 2 /\ Len(args) >= 2
  /\ args[1] = <<"-", "-", "c", "o", "l", "o", "r">>
  /\ args[2] = <<"-", "a">>
  /\ prev_type = "non_option"
  /\ Len(result) = 1 /\ result[1].argument = <<>>

\* the token has the assignment symbol
has_symbol(tok) == find(tok, m_equals) # npos

\* the option that the k-th character of the group names
named_by(tok, k) == Deref(find_option_short(group_names(tok)[k]))

\* C32: when an option that takes an argument is followed by more
\* characters in its short option group and the token has the assignment
\* symbol, the argument of the option is all of the token after the
\* character of the option, the assignment symbol included, and the
\* original_text of its entry is the short prefix, the character and that
\* argument (-omy=file: argument my=file, text -omy=file).  parse ends
\* with an error of the Binder instead if the option is bound to a number.
C32_SymbolInAttachedArgument ==
  [][\A k \in 1..3 :
       (Scanning /\ argument_starts_after(args[it], k) /\ has_symbol(args[it])) =>
         IF pc' = "thrown"
           THEN /\ error'.kind \in TypeMismatch \cup RangeError
                /\ named_by(args[it], k).m_arg_type # "string_arg"
           ELSE LET entry == result'[Len(result')]
                    rest == substr(args[it], Len(m_short_option_prefix) + k)
                IN /\ Len(result') = Len(result) + k
                   /\ entry.short_name = group_names(args[it])[k]
                   /\ entry.argument = rest
                   /\ has_symbol(entry.argument)
                   /\ entry.original_text =
                        Append(m_short_option_prefix, group_names(args[it])[k])
                          \o rest]_vars

\* parse has returned for  -ov=q : one entry for o with the argument v=q
\* and the text -ov=q
C32_Witness ==
  /\ pc = "returned" /\ Len(args) = 1
  /\ args[1] = <<"-", "o", "v", "=", "q">>
  /\ Len(returned[1]) = 1
  /\ returned[1][1].short_name = "o"
  /\ returned[1][1].argument = <<"v", "=", "q">>
  /\ returned[1][1].original_text = args[1]
  /\ data["file"] = <<"v", "=", "q">>

\* the text of s without the first occurrence of the assignment symbol
without_symbol(s) ==
  IF find(s, m_equals) = npos THEN s
  ELSE substr_n(s, 0, find(s, m_equals)) \o substr(s, find(s, m_equals) + Len(m_equals))

\* C33 as stated: the argument of an option that takes one and is followed
\* by more characters in its group is what remains of the token, without
\* the assignment symbol if there is one.
C33_SymbolStripped ==
  [][\A k \in 1..3 :
       (Scanning /\ argument_starts_after(args[it], k) /\ pc' = "loop") =>
         result'[Len(result')].argument =
           without_symbol(substr(args[it], Len(m_short_option_prefix) + k))]_vars

\* C33, amended: the argument of an option that takes one and is followed
\* by more characters in its group is what remains of the token, as it is:
\* an assignment symbol in it is kept, so that the short prefix, the
\* characters of the group up to the option and the argument make up the
\* token.
C33_RestOfTokenIsArgument ==
  [][\A k \in 1..3 :
       (Scanning /\ argument_starts_after(args[it], k) /\ pc' = "loop") =>
         /\ Len(result') = Len(result) + k
         /\ (m_short_option_prefix \o SubSeq(group_names(args[it]), 1, k))
              \o result'[Len(result')].argument = args[it]
         /\ has_symbol(args[it]) <=> has_symbol(result'[Len(result')].argument)]_vars

\* parse has returned for  -aov= : the argument of o is  v= , with the
\* assignment symbol
C33_Witness ==
  /\ pc = "returned" /\ Len(args) = 1
  /\ args[1] = <<"-", "a", "o", "v", "=">>
  /\ Len(returned[1]) = 2
  /\ returned[1][2].short_name = "o"
  /\ returned[1][2].argument = <<"v", "=">>

\* the variables that are bound to the argument of an option
TypedTargets ==
  {Deref(q).m_bound_variable : q \in all_options} \ {no_variable}

\* the last entry of the local result
last_entry == result[Len(result)]

\* C34: an option whose argument is optional and that gets none, because
\* the tokens end or the next token is an option or the end marker, has
\* nothing written to the variable bound to its argument: the step that
\* makes its entry, the step that finds the next token to be no argument
\* and the end of parse leave every such variable as it was, raise no
\* error, and the argument of the entry stays empty.
C34_NoArgumentNoBinder ==
  [][/\ (Scanning /\ prev_type' = "arg_optional") =>
          /\ pc' = "loop"
          /\ result'[Len(result')].is_option
          /\ result'[Len(result')].argument = <<>>
          /\ \A v \in TypedTargets : data'[v] = data[v]
     /\ (InLoop /\ prev_type = "arg_optional" /\ ~is_non_option(args[it])) =>
          /\ pc' = "loop" /\ error' = NoError
          /\ data' = data /\ result' = result
          /\ last_entry.argument = <<>>
     /\ (pc = "loop" /\ it > Len(args) /\ prev_type = "arg_optional") =>
          /\ pc' = "returned" /\ error' = NoError
          /\ data' = data /\ returned' = <<result>>
          /\ last_entry.argument = <<>>]_vars

\* --indent -f  has been parsed: the entry of --indent has no argument and
\* the variable bound to it, an unsigned int, has the value it had
C34_Witness ==
  /\ pc = "returned" /\ ~ignore_first
  /\ args = << <<"-", "-", "i", "n", "d", "e", "n", "t">>, <<"-", "f">> >>
  /\ Len(returned[1]) = 2
  /\ returned[1][1].long_name = <<"i", "n", "d", "e", "n", "t">>
  /\ returned[1][1].argument = <<>>
  /\ data["indent"] = bound_variables["indent"]
  /\ data["force"]

\* the position of the first character of the group that names no option,
\* 0 if there is none
first_unknown(names) ==
  IF \E k \in 1..Len(names) : find_option_short(names[k]) = nullptr
    THEN CHOOSE k \in 1..Len(names) :
           /\ find_option_short(names[k]) = nullptr
           /\ \A j \in 1..(k - 1) : find_option_short(names[j]) # nullptr
    ELSE 0

\* the token is a long option with an assignment whose name no option has
unknown_long_assigned(tok) ==
  /\ has_symbol(tok) /\ is_long_option(specifier(tok))
  /\ find_option_long(name_of(tok)) = nullptr

\* the token is a short option group with an assignment, a character of
\* the group names no option and those that name one take no argument
unknown_short_assigned(tok) ==
  /\ has_symbol(tok)
  /\ is_short_option_group(specifier(tok)) /\ ~is_long_option(specifier(tok))
  /\ first_unknown(group_names(tok)) # 0
  /\ \A k \in 1..Len(group_names(tok)) :
       find_option_short(group_names(tok)[k]) # nullptr =>
         Deref(find_option_short(group_names(tok)[k])).m_arg_name = <<>>

\* C35: a token with an assignment whose name is not that of an option,
\* a long name or a character in a group of options without argument, ends
\* parse with InvalidOption, which names the long option as written or the
\* first character that names no option; never with UnexpectedArgument.
C35_InvalidOptionWins ==
  [][/\ (Scanning /\ unknown_long_assigned(args[it])) =>
          /\ pc' = "thrown" /\ error'.kind = "InvalidOption"
          /\ error'.option = specifier(args[it])
     /\ (Scanning /\ unknown_short_assigned(args[it])) =>
          /\ pc' = "thrown" /\ error'.kind = "InvalidOption"
          /\ error'.option =
               Append(m_short_option_prefix,
                      group_names(args[it])[first_unknown(group_names(args[it]))])
     /\ (pc' = "thrown" /\ error'.kind = "UnexpectedArgument") =>
          ~unknown_long_assigned(args[it]) /\ ~unknown_short_assigned(args[it])]_vars

\* parse has ended on  -qa=x  with InvalidOption for -q, although a takes
\* no argument and the token assigns one
C35_Witness ==
  /\ pc = "thrown" /\ Len(args) = 1
  /\ args[1] = <<"-", "q", "a", "=", "x">>
  /\ error = parse_error("InvalidOption", <<"-", "q">>)

\* parse has ended on  --no=x  with InvalidOption for --no
C35_WitnessLong ==
  /\ pc = "thrown" /\ Len(args) = 1
  /\ args[1] = <<"-", "-", "n", "o", "=", "x">>
  /\ error = parse_error("InvalidOption", <<"-", "-", "n", "o">>)

\* the entry is that of an option that takes an argument and has none yet
awaits_argument(entry) ==
  /\ entry.is_option
  /\ entry.argument = <<>>
  /\ entry.opt_info # nullptr
  /\ Deref(entry.opt_info).m_arg_name # <<>>

\* C36: while parse expects a standalone argument, in the loop or after
\* it, the result is not empty and its last entry is the entry of an option
\* that takes an argument and has none yet; the argument is required iff
\* the option says so.  The step that takes the argument writes it into
\* that entry, and a MissingArgument names the text of that entry.
C36_PendingEntry ==
  /\ []((pc = "loop" /\ expects_argument(Locals)) =>
          /\ result # <<>>
          /\ awaits_argument(result[Len(result)])
          /\ (prev_type = "arg_required") <=>
               Deref(result[Len(result)].opt_info).m_arg_required)
  /\ [][/\ (InLoop /\ expects_argument(Locals) /\ is_non_option(args[it])) =>
             /\ Len(result') = Len(result)
             /\ result'[Len(result)].argument = args[it]
             /\ result'[Len(result)].opt_info = result[Len(result)].opt_info
             /\ SubSeq(result', 1, Len(result) - 1) = SubSeq(result, 1, Len(result) - 1)
        /\ (pc' = "thrown" /\ error'.kind = "MissingArgument") =>
             /\ prev_type = "arg_required" /\ result # <<>>
             /\ awaits_argument(result[Len(result)])
             /\ error'.option = result[Len(result)].original_text]_vars

\* x -o : after a plain argument, -o waits for its required argument at
\* the end of the tokens
C36_Witness ==
  /\ pc = "loop" /\ ~ignore_first
  /\ args = << <<"x">>, <<"-", "o">> >> /\ it = 3
  /\ prev_type = "arg_required"
  /\ Len(result) = 2 /\ result[2].short_name = "o"

\* --color -a : --color waits for its optional argument, the next token
\* is an option
C36_WitnessOptional ==
  /\ pc = "loop" /\ ~ignore_first /\ it = 2
  /\ Len(args) >= 2 /\ args[1] = <<"-", "-", "c", "o", "l", "o", "r">>
  /\ args[2] = <<"-", "a">>
  /\ prev_type = "arg_optional" /\ Len(result) = 1

\* the token is the long form of an option that takes an argument and has
\* a short name, with an argument after the assignment symbol
long_form(tok) ==
  /\ has_symbol(tok) /\ is_long_option(specifier(tok))
  /\ find_option_long(name_of(tok)) # nullptr
  /\ Deref(find_option_long(name_of(tok))).m_arg_name # <<>>
  /\ Deref(find_option_long(name_of(tok))).m_short_name # NUL

\* the same option and the same argument in short form
short_form(tok) ==
  (Append(m_short_option_prefix, Deref(find_option_long(name_of(tok))).m_short_name)
     \o m_equals) \o text_after_symbol(tok)

\* C37: the step on --name=ARG leaves the bound variables as the step on
\* -c=ARG for the same option and the same ARG would from the same state,
\* and ends parse with an error iff that one does.
C37_SameInEitherForm ==
  [][(Scanning /\ long_form(args[it])) =>
       /\ data' = regular_argument(Locals, short_form(args[it])).data
       /\ (pc' = "thrown") <=>
            (regular_argument(Locals, short_form(args[it])).pc = "thrown")]_vars

\* the step ends parse with an error of the Binder
binder_rejects ==
  pc = "loop" /\ pc' = "thrown" /\ error'.kind \in TypeMismatch \cup RangeError

\* C38: a step in which write_option_argument rejects the argument, as no
\* number or as out of range, leaves every variable that is bound to an
\* argument as it was before the step, the variable of the option
\* concerned included, whether the argument was assigned or standalone.
C38_RejectedLeavesTarget ==
  [][binder_rejects => \A v \in TypedTargets : data'[v] = data[v]]_vars

\* --indent=13 --indent=-32 : the second argument was rejected as
\* negative, the variable still holds 13
C38_Witness ==
  /\ pc = "thrown" /\ ~ignore_first /\ it = 2
  /\ args = << <<"-", "-", "i", "n", "d", "e", "n", "t", "=", "1", "3">>,
               <<"-", "-", "i", "n", "d", "e", "n", "t", "=", "-", "3", "2">> >>
  /\ error.kind = "MustNotBeNegative"
  /\ data["indent"] = integer(FALSE, <<"1", "3">>)

\* C39: a token that is no end marker, long option or short group and
\* holds the assignment symbol becomes, when no argument is pending and the
\* end marker was not seen, one entry that is no option, with the whole
\* token as its original_text and no argument; no error is raised, no bound
\* variable is written and the next token is looked at with nothing
\* pending.
C39_PlainWithSymbol ==
  [][(Scanning /\ is_non_option(args[it]) /\ has_symbol(args[it])) =>
       /\ pc' = "loop" /\ it' = it + 1 /\ error' = NoError
       /\ prev_type' = "non_option" /\ data' = data
       /\ Len(result') = Len(result) + 1
       /\ SubSeq(result', 1, Len(result)) = result
       /\ ~result'[Len(result')].is_option
       /\ result'[Len(result')].original_text = args[it]
       /\ result'[Len(result')].argument = <<>>
       /\ result'[Len(result')].opt_info = nullptr]_vars

\* parse has returned for  k=v =x : two entries that are no options, with
\* the tokens as their texts
C39_Witness ==
  /\ pc = "returned"
  /\ args = << <<"k", "=", "v">>, <<"=", "x">> >>
  /\ Len(returned[1]) = 2
  /\ \A i \in 1..2 : /\ ~returned[1][i].is_option
                     /\ returned[1][i].original_text = args[i]
                     /\ returned[1][i].argument = <<>>

\* the iterator is at an entry of its kind
at_entry ==
  m_index < Len(result) /\ result[m_index + 1].is_option = IsOption

\* the iterator is at the end position
at_end == m_index = Len(result)

\* C40: an iterator constructed on a result is always at an entry of its
\* kind or at the end position, whatever increments and decrements were
\* made, and a decrement that throws out_of_range leaves it where it was.
C40_IteratorDesignates ==
  /\ []((pc = "iterating" /\ m_result # nullptr) => (at_entry \/ at_end))
  /\ [][(pc = "iterating" /\ error' = out_of_range) => m_index' = m_index]_vars

====
